---- MODULE Spec2Model ----
(***************************************************************************)
(* Bulk job execution of okiedokie-utility: the document-fetcher job       *)
(* (processDocumentsInBackground / processExcelFile / processDownloadQueue *)
(* / processDocument / downloadFileWithProgress / createZipArchive) and    *)
(* the four sequential bulk jobs (image resizer, file converter, QR code,  *)
(* password generator).  One behaviour is one job of one utility; its      *)
(* input is chosen in Init.  Node's scheduling is modelled as it is: a     *)
(* synchronous stretch of code up to the next awaited I/O operation is one *)
(* action, continuations that sit in the microtask queue run before any    *)
(* I/O callback, and every I/O operation ends with one of the outcomes the *)
(* code can observe.                                                       *)
(***************************************************************************)
EXTENDS Integers, Sequences, FiniteSets, TLC

\* ------------------------------------------------------------------ bounds
MaxRows == 3      \* rows of the submitted spreadsheet data
MaxK == 2         \* largest configured maxConcurrent
MaxWideRows == 2  \* rows of a batch submitted with maxConcurrent 0 (run 20 wide)
MaxItems == 3     \* items of a sequential bulk job
MaxQueue == 7     \* longest queue handed to the chunking on its own
MaxChunk == 4     \* largest chunk size handed to the chunking on its own
MaxEmits == 2     \* calls of emitProgress / emitCompletion / emitError
MaxTicks == 3     \* half days that pass
MaxDownloads == 2 \* download requests answered
MaxCount == 4     \* largest total of a job whose progress numbers are computed
MaxSent == 1      \* answers and relayed events sent to one socket

\* ------------------------------------------------------- program constants
MAX_CONCURRENT_DOWNLOADS == 20

\* cleanupOldFiles: const maxAge, in hours.
maxAge == 24

Utilities ==
  {"document-fetcher", "image-resizer", "file-converter", "qr-code",
   "password-generator"}

SequentialUtilities == Utilities \ {"document-fetcher"}

\* ------------------------------------------------------------------ inputs
\* A cell of a row is abstracted by what the code can tell about it:
\*   "none"    no link, or not a string              (line 91)
\*   "invalid" a string isValidGoogleDriveLink rejects (line 103)
\*   "noid"    a link isValidGoogleDriveLink accepts and extractFileId does
\*             not match, e.g. https://drive.google.com/uc?export=download
\*   "ok"      a link both accept
LinkKinds == {"none", "invalid", "noid", "ok"}

\* config.columnMapping: column name -> folder name.  A column name is the
\* sequence of its tokens, " " being white space.
ColumnMapping ==
  << [col |-> <<"Student", " ", " ", "Photo">>, folder |-> "photos"] >>

Columns == 1..Len(ColumnMapping)

NullRow == [null |-> TRUE, regNo |-> "", links |-> [c \in Columns |-> "none"]]

\* regNo = "" stands for a row without 'Reg No', 'regNo' and 'REG NO'.
RowKinds ==
  {NullRow}
  \cup {[null |-> FALSE, regNo |-> "", links |-> [c \in Columns |-> "none"]]}
  \cup {[null |-> FALSE, regNo |-> "R1", links |-> l] : l \in [Columns -> LinkKinds]}
  \cup {[null |-> FALSE, regNo |-> "R2", links |-> [c \in Columns |-> "ok"]]}

\* req.body.data: up to MaxRows rows, of which at most one carries the second
\* registration number (so that rows share a file path and differ in it).
DataSets ==
  {d \in UNION {[1..n -> RowKinds] : n \in 0..MaxRows} :
     Cardinality({i \in DOMAIN d : d[i].regNo = "R2"}) <= 1}

\* The content types a download response is modelled to carry.
ContentTypes == {"application/pdf"}

NoTotal == 0 - 1

VARIABLES
  utility,        \* which bulk job this behaviour runs
  data,           \* document fetcher: req.body.data
  maxConcurrent,  \* document fetcher: config.maxConcurrent
  items,          \* sequential jobs: the submitted files / configs / count
  pc,             \* position of the job's driver
  totalTasks,     \* processExcelFile: let totalTasks
  completedTasks, \* processExcelFile: let completedTasks
  skippedTasks,   \* processExcelFile: let skippedTasks
  total,          \* sequential jobs: const total
  results,        \* const results = []
  downloadQueue,  \* const downloadQueue = []
  chunks,         \* processDownloadQueue: const chunks
  chunk,          \* processDownloadQueue: the chunk being awaited (from 1)
  tstate,         \* per thunk: where its invocation stands
  tpath,          \* per thunk: finalFilePath once the response arrived
  idx,            \* sequential jobs: loop index i
  stage,          \* sequential jobs: the await the loop body is at
  clock,          \* Date.now()
  events,         \* lifecycle events emitted, in order
  otherEvents,    \* names of every other event emitted
  archive,        \* the job's output archive
  files,          \* artifact paths written to the download directory
  io,             \* route module: let io (set by setSocketIO)
  body,           \* the submit's req.body / req.files, as the route tests it
  jobId,          \* the job id the route has allocated
  response,       \* the route's answer to the submit
  connected,      \* socket.io: the sockets connected to the server
  rooms,          \* socket.io: per socket, the job rooms it has joined
  log,            \* the calls of the emit functions made so far
  inbox,          \* per socket, the events sent to it, in order
  jobs,           \* per job id: the utility and how far the job has come
  store,          \* the files of the download directory
  now,            \* the time, in hours
  removed,        \* the paths cleanupOldFiles has removed
  requests,       \* the download requests answered so far
  alive,          \* whether the server process runs
  sweep,          \* how the job's run of cleanupOldFiles has ended
  numUtility,     \* progress numbers: the utility whose job runs
  totalHalves,    \* progress numbers: the job's total, in halves
  loopIndex,      \* progress numbers: the items finished so far
  numStage,       \* progress numbers: where the submit stands
  progressLog,    \* progress numbers: the progress payloads emitted
  wiring,         \* index.ts: the route module whose 'setSocketIO' test is next
  installed,      \* index.ts: the route modules whose io has been set
  serving         \* index.ts: whether server.listen has been called

jobVars ==
  << utility, data, maxConcurrent, items, pc, totalTasks, completedTasks,
     skippedTasks, total, results, downloadQueue, chunks, chunk, tstate, tpath, idx,
     stage, clock, events, otherEvents, archive, files >>

routeVars == << io, body, jobId, response >>

socketVars == << connected, rooms, log, inbox >>

storeVars == << jobs, store, now, removed, requests, alive, sweep >>

numVars == << numUtility, totalHalves, loopIndex, numStage, progressLog >>

bootVars == << wiring, installed, serving >>

vars == << jobVars, routeVars, socketVars, storeVars, numVars, bootVars >>

\* ------------------------------------------------------------ pure helpers
Min(a, b) == IF a < b THEN a ELSE b

Count(s, Test(_)) == Len(SelectSeq(s, Test))

Range(s) == {s[i] : i \in 1..Len(s)}

\* columnName.replace(/\s+/g, '_'): every run of white space becomes one "_".
RECURSIVE ReplaceWhitespace(_)
ReplaceWhitespace(name) ==
  IF name = <<>> THEN <<>>
  ELSE IF Head(name) = " "
       THEN IF Len(name) > 1 /\ name[2] = " "
            THEN ReplaceWhitespace(Tail(name))
            ELSE <<"_">> \o ReplaceWhitespace(Tail(name))
       ELSE <<Head(name)>> \o ReplaceWhitespace(Tail(name))

isValidGoogleDriveLink(link) == link \in {"noid", "ok"}

\* null when no pattern matches
extractFileId(link) == IF link = "ok" THEN "fileId" ELSE "null"

\* processDocument: filePath = DOWNLOAD_DIR/folderName/regNo_column
FilePath(regNo, col, folder) ==
  [dir |-> folder, base |-> <<regNo, "_">> \o ReplaceWhitespace(col)]

\* downloadFileWithProgress: finalFilePath = filePath + extension
FinalFilePath(filePath, ext) ==
  [dir |-> filePath.dir, base |-> filePath.base \o <<ext>>]

NoPath == [dir |-> "", base |-> <<>>]

\* getFileExtension(contentType, originalUrl), lines 368-383; the links of
\* the model name no extension, so the guess from the URL never matches.
getFileExtension(contentType) ==
  CASE contentType = "application/pdf" -> ".pdf"
    [] contentType \in {"image/jpeg", "image/jpg"} -> ".jpg"
    [] contentType = "image/png" -> ".png"
    [] contentType \in {"image/gif", "image/webp"} -> ".jpg"
    [] OTHER -> ".pdf"

\* A result: the item it belongs to, status, artifact location (NoPath when
\* absent) and whether it carries an error field.
Result(item, status, path, err) ==
  [item |-> item, status |-> status, filePath |-> path, error |-> err]

Event(kind, current, tot) == [kind |-> kind, current |-> current, total |-> tot]

\* ------------------------------------------- processExcelFile, lines 31-52
\* Variant: every cell that holds a link counts as a task.
CountRowTasks_AnyLink(row) ==
  Cardinality({c \in Columns : row.links[c] # "none"})

CountRowTasks(row) ==
  Cardinality({c \in Columns :
    row.links[c] # "none" /\ isValidGoogleDriveLink(row.links[c])})

RECURSIVE CountTotalTasks(_)
CountTotalTasks(d) ==
  IF d = <<>> THEN 0
  ELSE CountTotalTasks(Tail(d))
       + (IF Head(d).null \/ Head(d).regNo = "" THEN 0 ELSE CountRowTasks(Head(d)))

RECURSIVE CountSkippedTasks(_)
CountSkippedTasks(d) ==
  IF d = <<>> THEN 0
  ELSE CountSkippedTasks(Tail(d))
       + (IF Head(d).null THEN 0
          ELSE IF Head(d).regNo = "" THEN 1
          ELSE Len(ColumnMapping) - CountRowTasks(Head(d)))

\* ------------------------------------------ processExcelFile, lines 69-132
\* One pass over the rows and, in each, over the columns: a skipped result
\* is appended at once, a thunk is pushed for every other cell.
RECURSIVE BuildColumns(_, _, _, _)
BuildColumns(row, i, c, acc) ==
  IF c > Len(ColumnMapping) THEN acc
  ELSE LET link == row.links[c] IN
       IF link = "none" \/ ~isValidGoogleDriveLink(link)
       THEN BuildColumns(row, i, c + 1,
              [acc EXCEPT !.results =
                 Append(@, Result(<<i, c>>, "skipped", NoPath, FALSE))])
       ELSE BuildColumns(row, i, c + 1,
              [acc EXCEPT !.queue =
                 Append(@, [item |-> <<i, c>>, regNo |-> row.regNo,
                            col |-> ColumnMapping[c].col,
                            folder |-> ColumnMapping[c].folder,
                            link |-> link])])

RECURSIVE BuildQueue(_, _, _)
BuildQueue(d, i, acc) ==
  IF i > Len(d) THEN acc
  ELSE IF d[i].null THEN BuildQueue(d, i + 1, acc)
  ELSE IF d[i].regNo = ""
       THEN BuildQueue(d, i + 1,
              [acc EXCEPT !.results =
                 Append(@, Result(<<i, 0>>, "skipped", NoPath, FALSE))])
       ELSE BuildQueue(d, i + 1, BuildColumns(d[i], i, 1, acc))

\* ---------------------------------------- processDownloadQueue, lines 161-177
\* config.maxConcurrent || MAX_CONCURRENT_DOWNLOADS
EffectiveMaxConcurrent(k) == IF k = 0 THEN MAX_CONCURRENT_DOWNLOADS ELSE k

\* for (i = 0; i < queue.length; i += k) chunks.push(queue.slice(i, i + k)):
\* a chunk is the sequence of the queue positions (from 1) it holds.
Slice(n, from, to) == [j \in 1..(Min(to, n) - from) |-> from + j]

\* Variant: the slice runs one position too far.
RECURSIVE BuildChunks_OffByOne(_, _, _)
BuildChunks_OffByOne(n, k, i) ==
  IF i < n THEN <<Slice(n, i, i + k + 1)>> \o BuildChunks_OffByOne(n, k, i + k)
  ELSE <<>>

\* Variant: a last chunk of fewer than k thunks is dropped.
RECURSIVE BuildChunks_DropsTail(_, _, _)
BuildChunks_DropsTail(n, k, i) ==
  IF i + k <= n THEN <<Slice(n, i, i + k)>> \o BuildChunks_DropsTail(n, k, i + k)
  ELSE <<>>

RECURSIVE BuildChunks(_, _, _)
BuildChunks(n, k, i) ==
  IF i < n THEN <<Slice(n, i, i + k)>> \o BuildChunks(n, k, i + k) ELSE <<>>

\* for (let i = 0; i < queue.length; i += maxConcurrent): with a negative
\* step and a queue that is not empty, i never reaches queue.length; the loop
\* pushes chunks without end and nothing else of the process runs again.
LoopsForever(n, k) == k < 0 /\ n > 0

\* task(): the thunk runs processDocument up to its first await.  With no
\* file id processDocument returns at once and the thunk's continuation is
\* queued as a microtask; otherwise it awaits fs.ensureDir(folderPath).
StartedState(q) ==
  IF extractFileId(q.link) = "null" THEN "returning" ELSE "mkdir"

\* chunk.map(task => task())
StartChunk(ts, queue, c) ==
  [i \in DOMAIN ts |-> IF i \in Range(c) THEN StartedState(queue[i]) ELSE ts[i]]

Settled(i) == tstate[i] = "settled"

InFlight == {i \in DOMAIN tstate : tstate[i] \notin {"queued", "settled"}}

\* Continuations in the microtask queue run before any I/O callback.
NoMicrotask == \A i \in DOMAIN tstate : tstate[i] # "returning"

\* ------------------------------------------------ archive assembly helpers
MapSeq(s, F(_)) == [i \in 1..Len(s) |-> F(s[i])]

\* Variant: every result gets an entry.
DocumentEntries_AllResults(rs) ==
  MapSeq(rs, LAMBDA r : [path |-> r.filePath,
                         name |-> <<r.filePath.dir, r.filePath.base>>])

\* createZipArchive, lines 403-409
DocumentEntries(rs) ==
  MapSeq(SelectSeq(rs, LAMBDA r : r.status = "success" /\ r.filePath # NoPath),
         LAMBDA r : [path |-> r.filePath,
                     name |-> <<r.filePath.dir, r.filePath.base>>])

\* createResizedImagesZip / createConvertedFilesZip / createQRCodeZip
NamedEntries(rs, fs) ==
  MapSeq(SelectSeq(rs, LAMBDA r : r.status = "success" /\ r.filePath # NoPath
                                  /\ r.filePath \in fs),
         LAMBDA r : [path |-> r.filePath, name |-> <<r.filePath.base>>])

\* createPasswordFiles: the txt, csv and json files list the successful
\* results, one line or element each.
PasswordEntries(rs) ==
  MapSeq(SelectSeq(rs, LAMBDA r : r.status = "success"),
         LAMBDA r : [path |-> NoPath, name |-> <<r.item>>])

ArchiveEntries(u, rs, fs) ==
  CASE u = "document-fetcher" -> DocumentEntries(rs)
    [] u = "password-generator" -> PasswordEntries(rs)
    [] OTHER -> NamedEntries(rs, fs)

NoArchive == [st |-> "none", entries |-> <<>>]

\* ------------------------------------------------------------------- Init
ItemKinds(u) ==
  CASE u = "qr-code" -> {"config", "null"}
    [] u = "file-converter" -> {"a.txt", "b.txt"}
    [] u = "image-resizer" -> {"image"}
    [] OTHER -> {"valid", "invalid"}

\* What can be submitted: files for the resizer and the converter, a configs
\* array for the QR codes, a count and one shared configuration for the
\* passwords (no items: count is 0 or missing).
ItemLists(u) ==
  CASE u = "password-generator" ->
         {[i \in 1..n |-> k] : n \in 0..MaxItems, k \in ItemKinds(u)}
    [] OTHER -> UNION {[1..n -> ItemKinds(u)] : n \in 0..MaxItems}

\* config.maxConcurrent of a document-fetch submit: nothing checks it.
ConcurrencyChoices == {0 - 1, 0} \cup (1..MaxK)

\* What the route tests of the request: whether the input list is an array
\* (data, configs; req.files of the two upload routes is an array or
\* missing, which the route treats like an empty one) and whether the
\* configuration it looks at is there (config of the document fetcher and of
\* the passwords, config.outputFormat of the converter).
Bodies(u) ==
  CASE u = "document-fetcher" ->
         [list : {"array", "missing"}, config : {"given", "missing"}]
    [] u = "qr-code" -> [list : {"array", "missing"}, config : {"given"}]
    [] u = "image-resizer" -> [list : {"array"}, config : {"given"}]
    [] OTHER -> [list : {"array"}, config : {"given", "missing"}]

NoResponse == [st |-> "none", code |-> 0, after |-> 0, begun |-> 0]

\* The sockets that may connect and the job ids they may name.
Sockets == {"s1", "s2"}

JobIds == {"j1", "j2"}

\* No client has connected and nothing has been emitted.
SocketIdle ==
  /\ connected = {}
  /\ rooms = [s \in Sockets |-> {}]
  /\ log = <<>>
  /\ inbox = [s \in Sockets |-> <<>>]

\* No job has been submitted and the download directory is empty.
StoreIdle ==
  /\ jobs = [j \in JobIds |-> [utility |-> "none", st |-> "none", id |-> "none"]]
  /\ store = {}
  /\ now = 0
  /\ removed = {}
  /\ requests = <<>>
  /\ alive = TRUE
  /\ sweep = "none"

\* No progress number has been computed.
NumIdle ==
  /\ numUtility = "document-fetcher"
  /\ totalHalves = 0
  /\ loopIndex = 0
  /\ numStage = "idle"
  /\ progressLog = <<>>

\* index.ts stands outside: nothing of it has run.
BootIdle ==
  /\ wiring = 1
  /\ installed = {}
  /\ serving = FALSE

\* The variables of a job function that has not been called.
JobFresh ==
  /\ pc = "idle"
  /\ totalTasks = 0
  /\ completedTasks = 0
  /\ skippedTasks = 0
  /\ total = 0
  /\ results = <<>>
  /\ downloadQueue = <<>>
  /\ chunks = <<>>
  /\ chunk = 0
  /\ tstate = <<>>
  /\ tpath = <<>>
  /\ idx = 0
  /\ stage = "none"
  /\ clock = 0
  /\ events = <<>>
  /\ otherEvents = {}
  /\ archive = NoArchive
  /\ files = {}

JobInit ==
  /\ utility \in Utilities
  /\ body \in Bodies(utility)
  /\ IF utility = "document-fetcher"
     THEN /\ data \in (IF body.list = "array" THEN DataSets ELSE {<<>>})
          /\ maxConcurrent \in (IF body.config = "given" THEN ConcurrencyChoices
                                 ELSE {0})
          /\ (body.config = "given" /\ maxConcurrent = 0)
                => Len(data) <= MaxWideRows
          /\ items = <<>>
     ELSE /\ data = <<>>
          /\ maxConcurrent = 0
          /\ items \in (IF body.list = "array" THEN ItemLists(utility)
                         ELSE {<<>>})
  /\ JobFresh

\* The route module on its own: whether its importer has called setSocketIO
\* is drawn (index.ts is followed under BootSpec).
RouteInit ==
  /\ io \in BOOLEAN
  /\ jobId = "none"
  /\ response = NoResponse

Init == JobInit /\ RouteInit /\ SocketIdle /\ StoreIdle /\ NumIdle /\ BootIdle

\* ------------------------------------------------------------- emissions
\* emitProgress / emitCompletion / emitError with one of the four lifecycle
\* events of the utility's namespace.
Emit(evs, kind, current, tot) == Append(evs, Event(kind, current, tot))

\* The payload of a complete event beside jobId, the counts and timestamp:
\* the key under which it carries the location of the job's output ("none"
\* when it carries none) and the results array.
Completion(current, loc, res) ==
  [kind |-> "complete", current |-> current, total |-> NoTotal,
   location |-> loc, results |-> res]

\* processExcelFile and the resize, convert and QR jobs put zipPath in the
\* payload; generateBulkPasswords puts files, the three download links.
LocationKey(u) == IF u = "password-generator" THEN "files" ELSE "zipPath"

IsDoc == utility = "document-fetcher"

\* ------------------------------------------------------------- the routes
\* POST /process-documents, /resize-bulk, /convert-bulk and the two
\* /generate-bulk: what the handler tests before it allocates a job id.
ValidBody ==
  CASE utility = "document-fetcher" -> body.list = "array"
    [] utility = "qr-code" -> body.list = "array"
    [] utility = "image-resizer" -> Len(items) > 0
    [] utility = "file-converter" -> Len(items) > 0 /\ body.config = "given"
    [] OTHER -> body.config = "given" /\ Len(items) >= 1 /\ Len(items) <= 1000

\* Variant: the handler does not test io.
Accepted_IgnoresIo == ValidBody

Accepted == ValidBody /\ io

\* return res.status(400 | 500).json({ success: false, ... })
Reject ==
  /\ pc = "idle" /\ response.st = "none" /\ ~Accepted
  /\ response' = [st |-> "rejected", code |-> IF ValidBody THEN 500 ELSE 400,
                   after |-> 0, begun |-> 0]
  /\ UNCHANGED << io, body, jobId >>
  /\ UNCHANGED << jobVars, socketVars, storeVars, numVars, bootVars >>

\* Whether the job function, being at position p (stage s, item i), has
\* handed control back: it has reached an await.  The one place where the
\* model's step ends and the code goes on synchronously is the QR loop
\* before a null config, whose throw is caught without any await.
AtAwait(p, s, i) ==
  ~(utility = "qr-code" /\ p = "loop" /\ s = "work" /\ items[i] = "null")

\* The work items whose work function has been called when the job function
\* is at position p, item i.
Begun(p, i) ==
  IF IsDoc THEN 0 ELSE IF p = "loop" THEN i ELSE Len(items)

\* The handler allocates the job id, calls the job function without awaiting
\* it, and, when that call returns at the function's first await, sends
\* res.json({ success: true, data: { jobId } }).
RouteFollows ==
  /\ UNCHANGED << io, body >>
  /\ UNCHANGED << socketVars, storeVars, numVars, bootVars >>
  /\ jobId' = "allocated"
  /\ response' =
       IF response.st = "none" /\ AtAwait(pc', stage', idx')
       THEN [st |-> "sent", code |-> 200, after |-> Len(events'),
             begun |-> Begun(pc', idx')]
       ELSE response

\* ------------------------------ processDocumentsInBackground, lines 205-215
\* The start event of the route's background function, then processExcelFile
\* up to its first await, fs.ensureDir(DOWNLOAD_DIR).
BackgroundStart ==
  /\ IsDoc /\ pc = "idle" /\ Accepted
  /\ events' = Emit(events, "start", 0, NoTotal)
  /\ pc' = "ensureDir"
  /\ UNCHANGED << utility, data, maxConcurrent, items, totalTasks,
                  completedTasks, skippedTasks, total, results, downloadQueue,
                  chunks, chunk, tstate, tpath, idx, stage, clock, otherEvents,
                  archive, files >>
  /\ RouteFollows

\* fs.ensureDir(DOWNLOAD_DIR) ends: on success processExcelFile goes on to
\* await cleanupOldFiles(); a failure is thrown outside processExcelFile's
\* try block and caught by processDocumentsInBackground (lines 224-229).
EnsureDirDone ==
  /\ IsDoc /\ pc = "ensureDir"
  /\ \/ /\ pc' = "cleanup"
        /\ events' = events
     \/ /\ pc' = "done"
        /\ events' = Emit(events, "error", 0, NoTotal)
  /\ UNCHANGED << utility, data, maxConcurrent, items, totalTasks,
                  completedTasks, skippedTasks, total, results, downloadQueue,
                  chunks, chunk, tstate, tpath, idx, stage, clock, otherEvents,
                  archive, files >>
  /\ RouteFollows

\* cleanupOldFiles() has ended (it catches its own errors), and
\* processExcelFile runs without suspension from the counting pass (line 31)
\* through the start event and the queue-building pass into
\* processDownloadQueue, which builds the chunks and starts the first one.
PrepareAndStart ==
  /\ IsDoc /\ pc = "cleanup" /\ body.config = "given"
  /\ LET built == BuildQueue(data, 1, [results |-> <<>>, queue |-> <<>>])
         n == Len(built.queue)
         k == EffectiveMaxConcurrent(maxConcurrent)
         cs == IF LoopsForever(n, k) THEN <<>> ELSE BuildChunks(n, k, 0)
         ts == [i \in 1..n |-> "queued"]
     IN /\ pc' = IF LoopsForever(n, k) THEN "chunking" ELSE "queue"
        /\ totalTasks' = CountTotalTasks(data)
        /\ skippedTasks' = CountSkippedTasks(data)
        /\ events' = Emit(events, "start", 0, CountTotalTasks(data))
        /\ results' = built.results
        /\ downloadQueue' = built.queue
        /\ chunks' = cs
        /\ chunk' = 1
        /\ tstate' = IF cs = <<>> THEN ts ELSE StartChunk(ts, built.queue, cs[1])
        /\ tpath' = [i \in 1..n |-> NoPath]
  /\ UNCHANGED << utility, data, maxConcurrent, items, completedTasks, total,
                  idx, stage, clock, otherEvents, archive, files >>
  /\ RouteFollows

\* The same stretch of processExcelFile when the submit carried no config.
\* With a row that has a registration number the counting pass reads
\* config.columnMapping of undefined (line 44), outside the try block:
\* processExcelFile rejects without an event of its own, having counted the
\* rows without a registration number before that row.  Without such a row
\* both passes go through, the start event announces no task, and
\* config.maxConcurrent (line 136) throws inside the try block, whose catch
\* emits error and rethrows.
PrepareWithoutConfig ==
  /\ IsDoc /\ pc = "cleanup" /\ body.config = "missing"
  /\ IF \E i \in DOMAIN data : ~data[i].null /\ data[i].regNo # ""
     THEN LET first == CHOOSE i \in DOMAIN data :
                         /\ ~data[i].null /\ data[i].regNo # ""
                         /\ \A j \in 1..(i - 1) : data[j].null \/ data[j].regNo = ""
          IN /\ skippedTasks' = CountSkippedTasks(SubSeq(data, 1, first - 1))
             /\ UNCHANGED << events, results >>
     ELSE /\ events' = Emit(Emit(events, "start", 0, 0), "error", 0, NoTotal)
          /\ results' = BuildQueue(data, 1, [results |-> <<>>, queue |-> <<>>]).results
          /\ skippedTasks' = CountSkippedTasks(data)
  /\ pc' = "rethrown"
  /\ UNCHANGED << utility, data, maxConcurrent, items, totalTasks,
                  completedTasks, total, downloadQueue, chunks, chunk, tstate,
                  tpath, idx, stage, clock, otherEvents, archive, files >>
  /\ RouteFollows

\* Variant: the result takes the place of the last one.
CompleteThunk_ReplacesLast(i, r) ==
  /\ results' = IF results = <<>> THEN <<r>>
                ELSE [results EXCEPT ![Len(results)] = r]
  /\ completedTasks' = completedTasks + 1
  /\ events' = Emit(events, "progress", completedTasks + 1, totalTasks)
  /\ tstate' = [tstate EXCEPT ![i] = "settled"]

\* Variant: the counter starts again with every chunk.
CompleteThunk_CountsPerChunk(i, r) ==
  /\ results' = Append(results, r)
  /\ completedTasks' = completedTasks + 1
  /\ events' = Emit(events, "progress",
                    Cardinality({j \in Range(chunks[chunk]) : Settled(j)}) + 1,
                    totalTasks)
  /\ tstate' = [tstate EXCEPT ![i] = "settled"]

\* Variant: the result is put at its thunk's place in the queue's order.
CompleteThunk_InQueueOrder(i, r) ==
  /\ LET pos(x) == CHOOSE q \in DOMAIN downloadQueue :
                      downloadQueue[q].item = x.item
         before == SelectSeq(results,
                     LAMBDA x : IF x.status = "skipped" THEN TRUE ELSE pos(x) < i)
         after == SelectSeq(results,
                     LAMBDA x : IF x.status = "skipped" THEN FALSE ELSE pos(x) > i)
     IN results' = before \o <<r>> \o after
  /\ completedTasks' = completedTasks + 1
  /\ events' = Emit(events, "progress", completedTasks + 1, totalTasks)
  /\ tstate' = [tstate EXCEPT ![i] = "settled"]

\* Variant: the progress event carries the count before the increment.
CompleteThunk_StaleCount(i, r) ==
  /\ results' = Append(results, r)
  /\ completedTasks' = completedTasks + 1
  /\ events' = Emit(events, "progress", completedTasks, totalTasks)
  /\ tstate' = [tstate EXCEPT ![i] = "settled"]

\* The rest of a thunk (lines 118-129) once processDocument has returned
\* result r: one uninterrupted stretch, after which the thunk has settled.
CompleteThunk(i, r) ==
  /\ results' = Append(results, r)
  /\ completedTasks' = completedTasks + 1
  /\ events' = Emit(events, "progress", completedTasks + 1, totalTasks)
  /\ tstate' = [tstate EXCEPT ![i] = "settled"]

\* processDocument, lines 189-198: no file id; the result has no error field.
ThunkReturn(i) ==
  /\ pc = "queue" /\ tstate[i] = "returning"
  /\ \A j \in DOMAIN tstate : tstate[j] = "returning" => i <= j
  /\ CompleteThunk(i, Result(downloadQueue[i].item, "failed", NoPath, FALSE))
  /\ UNCHANGED << utility, data, maxConcurrent, items, pc, totalTasks,
                  skippedTasks, total, downloadQueue, chunks, chunk, tpath,
                  idx, stage, clock, otherEvents, archive, files >>
  /\ RouteFollows

\* fs.ensureDir(folderPath) ends (line 202): on success the download starts
\* (download-start, the axios request); a failure is caught at line 235.
MkdirDone(i) ==
  /\ pc = "queue" /\ NoMicrotask /\ tstate[i] = "mkdir"
  /\ \/ /\ tstate' = [tstate EXCEPT ![i] = "request"]
        /\ otherEvents' = otherEvents \cup {"download-start"}
        /\ UNCHANGED << results, completedTasks, events >>
     \/ /\ CompleteThunk(i, Result(downloadQueue[i].item, "failed", NoPath, TRUE))
        /\ otherEvents' = otherEvents
  /\ UNCHANGED << utility, data, maxConcurrent, items, pc, totalTasks,
                  skippedTasks, total, downloadQueue, chunks, chunk, tpath,
                  idx, stage, clock, archive, files >>
  /\ RouteFollows

\* The axios request ends (lines 299-315): with a response, whose content
\* type gives the extension, the file is opened and the response piped into
\* it; a failure (time-out, network, status) is caught at line 350.
RequestDone(i) ==
  /\ pc = "queue" /\ NoMicrotask /\ tstate[i] = "request"
  /\ \/ \E ct \in ContentTypes :
          LET q == downloadQueue[i]
              p == FinalFilePath(FilePath(q.regNo, q.col, q.folder),
                                 getFileExtension(ct))
          IN /\ tpath' = [tpath EXCEPT ![i] = p]
             /\ files' = files \cup {p}
             /\ tstate' = [tstate EXCEPT ![i] = "piping"]
             /\ UNCHANGED << results, completedTasks, events, otherEvents >>
     \/ /\ CompleteThunk(i, Result(downloadQueue[i].item, "failed", NoPath, TRUE))
        /\ otherEvents' = otherEvents \cup {"download-error"}
        /\ UNCHANGED << tpath, files >>
  /\ UNCHANGED << utility, data, maxConcurrent, items, pc, totalTasks,
                  skippedTasks, total, downloadQueue, chunks, chunk, idx,
                  stage, clock, archive >>
  /\ RouteFollows

\* The pipe ends (lines 317-348).  The writer finishes: download-complete,
\* then processDocument awaits fs.stat.  The writer errors: download-error
\* and a failed result.  The response stream errors: pipe() neither ends nor
\* destroys the writer and nothing listens on the response, so the promise of
\* line 317 is never settled and the thunk stays in flight for good.
PipeDone(i) ==
  /\ pc = "queue" /\ NoMicrotask /\ tstate[i] = "piping"
  /\ \/ /\ tstate' = [tstate EXCEPT ![i] = "stat"]
        /\ otherEvents' = otherEvents \cup {"download-complete"}
        /\ UNCHANGED << results, completedTasks, events >>
     \/ /\ CompleteThunk(i, Result(downloadQueue[i].item, "failed", NoPath, TRUE))
        /\ otherEvents' = otherEvents \cup {"download-error"}
     \/ /\ tstate' = [tstate EXCEPT ![i] = "stuck"]
        /\ UNCHANGED << results, completedTasks, events, otherEvents >>
  /\ UNCHANGED << utility, data, maxConcurrent, items, pc, totalTasks,
                  skippedTasks, total, downloadQueue, chunks, chunk, tpath,
                  idx, stage, clock, archive, files >>
  /\ RouteFollows

\* fs.stat(success.filePath) ends (lines 211-222): the success result, or
\* the failed one of the catch at line 235.
StatDone(i) ==
  /\ pc = "queue" /\ NoMicrotask /\ tstate[i] = "stat"
  /\ \/ CompleteThunk(i, Result(downloadQueue[i].item, "success", tpath[i], FALSE))
     \/ CompleteThunk(i, Result(downloadQueue[i].item, "failed", NoPath, TRUE))
  /\ UNCHANGED << utility, data, maxConcurrent, items, pc, totalTasks,
                  skippedTasks, total, downloadQueue, chunks, chunk, tpath,
                  idx, stage, clock, otherEvents, archive, files >>
  /\ RouteFollows

\* Variant: the loop goes on as soon as one thunk of the chunk has settled.
ChunkSettled_Race ==
  IF chunk > Len(chunks) THEN TRUE
  ELSE \E i \in Range(chunks[chunk]) : Settled(i)

\* await Promise.all(...) of the current chunk is over (or there is no
\* chunk): the loop starts the next chunk, or processDownloadQueue returns
\* and processExcelFile calls createZipArchive, which opens the output,
\* queues the entries and finalizes.
ChunkSettled ==
  IF chunk > Len(chunks) THEN TRUE
  ELSE \A i \in Range(chunks[chunk]) : Settled(i)

ProcessDownloadQueueNext ==
  /\ IsDoc /\ pc = "queue" /\ ChunkSettled
  /\ IF chunk < Len(chunks)
     THEN /\ chunk' = chunk + 1
          /\ tstate' = StartChunk(tstate, downloadQueue, chunks[chunk + 1])
          /\ UNCHANGED << pc, archive >>
     ELSE /\ pc' = "archive"
          /\ archive' = [st |-> "writing",
                         entries |-> ArchiveEntries(utility, results, files)]
          /\ UNCHANGED << chunk, tstate >>
  /\ UNCHANGED << utility, data, maxConcurrent, items, totalTasks,
                  completedTasks, skippedTasks, total, results, downloadQueue,
                  chunks, tpath, idx, stage, clock, events, otherEvents, files >>
  /\ RouteFollows

\* ------------------------------------------------- sequential bulk jobs
\* resizeBulkImages, convertBulkFiles, generateBulkQRCodes and
\* generateBulkPasswords share one shape: a start event, a loop that awaits
\* the work function per item, the archive, the complete event; one catch
\* around the whole.
RemovesUpload == utility \in {"image-resizer", "file-converter"}

\* The output file of one item, named from Date.now() = t:
\* resized-<t>.<ext>, <baseName>_converted_<t><ext>, qr-<t>.png.
ArtifactPath(u, item, t) ==
  CASE u = "image-resizer" ->
         [dir |-> "resized-images", base |-> <<"resized-", t, ".jpeg">>]
    [] u = "file-converter" ->
         [dir |-> "converted-files", base |-> <<item, "_converted_", t, ".pdf">>]
    [] u = "qr-code" ->
         [dir |-> "qr-codes", base |-> <<"qr-", t, ".png">>]
    [] OTHER -> NoPath

\* if (!config) throw ...; createPassword throws on an empty character set.
MustFail(item) == item \in {"null", "invalid"}

\* generatePassword awaits nothing and cannot fail on a valid configuration.
CannotFail(item) == item = "valid"

\* Variant: a failed result ends the loop.
Advance_AbortOnFailure(rs, fs) ==
  IF idx < Len(items) /\ rs[Len(rs)].status # "failed"
  THEN /\ idx' = idx + 1
       /\ stage' = "work"
       /\ UNCHANGED << pc, archive >>
  ELSE /\ pc' = "archive"
       /\ stage' = "none"
       /\ archive' = [st |-> "writing", entries |-> ArchiveEntries(utility, rs, fs)]
       /\ idx' = idx

\* Variant: after the last item the archive is written only if some item
\* succeeded.
Advance_NoArchiveWithoutSuccess(rs, fs) ==
  IF idx < Len(items)
  THEN /\ idx' = idx + 1
       /\ stage' = "work"
       /\ UNCHANGED << pc, archive >>
  ELSE IF \E n \in DOMAIN rs : rs[n].status = "success"
  THEN /\ pc' = "archive"
       /\ stage' = "none"
       /\ archive' = [st |-> "writing", entries |-> ArchiveEntries(utility, rs, fs)]
       /\ idx' = idx
  ELSE /\ pc' = "done"
       /\ stage' = "none"
       /\ archive' = archive
       /\ idx' = idx

\* Variant: the archive is opened when the last item is taken up.
Advance_ArchiveBeforeLastItem(rs, fs) ==
  IF idx < Len(items)
  THEN /\ idx' = idx + 1
       /\ stage' = "work"
       /\ pc' = pc
       /\ archive' = IF idx + 1 = Len(items)
                     THEN [st |-> "writing",
                           entries |-> ArchiveEntries(utility, rs, fs)]
                     ELSE archive
  ELSE /\ pc' = "archive"
       /\ stage' = "none"
       /\ archive' = [st |-> "writing", entries |-> ArchiveEntries(utility, rs, fs)]
       /\ idx' = idx

\* The loop goes on to the next item or, after the last one, to the archive:
\* create<...>Zip opens the output, queues the entries and finalizes;
\* createPasswordFiles starts writing its files.
Advance(rs, fs) ==
  IF idx < Len(items)
  THEN /\ idx' = idx + 1
       /\ stage' = "work"
       /\ UNCHANGED << pc, archive >>
  ELSE /\ pc' = "archive"
       /\ stage' = "none"
       /\ archive' = [st |-> "writing", entries |-> ArchiveEntries(utility, rs, fs)]
       /\ idx' = idx

\* The start event (total = files.length, configs.length or config.count)
\* and the loop up to its first await.
BulkStart ==
  /\ ~IsDoc /\ pc = "idle" /\ Accepted
  /\ total' = Len(items)
  /\ events' = Emit(events, "start", 0, Len(items))
  /\ IF Len(items) = 0
     THEN /\ pc' = "archive"
          /\ archive' = [st |-> "writing",
                         entries |-> ArchiveEntries(utility, results, files)]
          /\ UNCHANGED << idx, stage >>
     ELSE /\ pc' = "loop"
          /\ idx' = 1
          /\ stage' = "work"
          /\ archive' = archive
  /\ UNCHANGED << utility, data, maxConcurrent, items, totalTasks,
                  completedTasks, skippedTasks, results, downloadQueue, chunks,
                  chunk, tstate, tpath, clock, otherEvents, files >>
  /\ RouteFollows

\* The work function of item idx ends.  Fulfilled: the result is pushed;
\* the resizer and the converter then await fs.remove(file.path), the others
\* emit progress and go on.  Rejected (or the item is undefined): the catch
\* pushes the failed result and emits progress.
WorkDone ==
  /\ ~IsDoc /\ pc = "loop" /\ stage = "work"
  /\ \/ /\ ~MustFail(items[idx])
        /\ \E t \in {clock, clock + 1} :
             LET p == ArtifactPath(utility, items[idx], t)
                 rs == Append(results, Result(<<idx, 0>>, "success", p, FALSE))
                 fs == IF p = NoPath THEN files ELSE files \cup {p}
             IN /\ clock' = t
                /\ results' = rs
                /\ files' = fs
                /\ IF RemovesUpload
                   THEN /\ stage' = "remove"
                        /\ UNCHANGED << pc, idx, archive, events >>
                   ELSE /\ events' = Emit(events, "progress", idx, total)
                        /\ Advance(rs, fs)
     \/ /\ ~CannotFail(items[idx])
        /\ LET rs == Append(results, Result(<<idx, 0>>, "failed", NoPath, TRUE))
           IN /\ results' = rs
              /\ events' = Emit(events, "progress", idx, total)
              /\ Advance(rs, files)
        /\ UNCHANGED << clock, files >>
  /\ UNCHANGED << utility, data, maxConcurrent, items, totalTasks,
                  completedTasks, skippedTasks, total, downloadQueue, chunks,
                  chunk, tstate, tpath, otherEvents >>
  /\ RouteFollows

\* fs.remove(file.path) after a successful item ends.  Done: progress is
\* emitted.  Thrown: the catch of the same try block runs, pushes a failed
\* result for the item whose success result is already in results, and
\* emits progress.
RemoveDone ==
  /\ ~IsDoc /\ pc = "loop" /\ stage = "remove"
  /\ \/ /\ events' = Emit(events, "progress", idx, total)
        /\ results' = results
        /\ Advance(results, files)
     \/ LET rs == Append(results, Result(<<idx, 0>>, "failed", NoPath, TRUE))
        IN /\ results' = rs
           /\ events' = Emit(events, "progress", idx, total)
           /\ Advance(rs, files)
  /\ UNCHANGED << utility, data, maxConcurrent, items, totalTasks,
                  completedTasks, skippedTasks, total, downloadQueue, chunks,
                  chunk, tstate, tpath, clock, otherEvents, files >>
  /\ RouteFollows

\* --------------------------------------------------------- archive outcome
\* The promise of create<...>Zip is settled by output.on('close') and
\* archive.on('error') only.
AfterResolve == IF IsDoc THEN "returned" ELSE "done"

AfterReject == IF IsDoc THEN "rethrown" ELSE "done"

\* The output closes after the whole archive was written: resolve(zipPath),
\* and the caller emits complete.  (createPasswordFiles: the three writes
\* are done.)
ArchiveClose ==
  /\ pc = "archive" /\ archive.st = "writing"
  /\ archive' = [archive EXCEPT !.st = "closed"]
  /\ events' = Append(events, Completion(completedTasks,
                                             LocationKey(utility), results))
  /\ pc' = AfterResolve
  /\ UNCHANGED << utility, data, maxConcurrent, items, totalTasks,
                  completedTasks, skippedTasks, total, results, downloadQueue,
                  chunks, chunk, tstate, tpath, idx, stage, clock, otherEvents,
                  files >>
  /\ RouteFollows

\* The compressor reports an error: reject(err); the catch emits error.
\* (createPasswordFiles: ensureDir or a writeFile throws.)
ArchiverError ==
  /\ pc = "archive" /\ archive.st = "writing"
  /\ archive' = [archive EXCEPT !.st = "failed"]
  /\ events' = Emit(events, "error", 0, NoTotal)
  /\ pc' = AfterReject
  /\ UNCHANGED << utility, data, maxConcurrent, items, totalTasks,
                  completedTasks, skippedTasks, total, results, downloadQueue,
                  chunks, chunk, tstate, tpath, idx, stage, clock, otherEvents,
                  files >>
  /\ RouteFollows

\* The output write stream errors (open or write fails).  The code listens
\* for 'close' and for the compressor's 'error', not for the output's
\* 'error'; the only listener is the one archive.pipe(output) installed.
\* What that listener does depends on the stream library the compressor is
\* built on: it re-emits the error on the output, which nobody handles, and
\* the process dies of the uncaught exception; or it drops the error of the
\* already destroyed stream, 'close' follows, and the promise is resolved
\* with the path of an archive that was not written.
OutputError ==
  /\ pc = "archive" /\ archive.st = "writing"
  /\ utility # "password-generator"
  /\ archive' = [archive EXCEPT !.st = "broken"]
  /\ \/ /\ pc' = "crashed"
        /\ events' = events
     \/ /\ pc' = AfterResolve
        /\ events' = Append(events, Completion(completedTasks,
                                             LocationKey(utility), results))
  /\ UNCHANGED << utility, data, maxConcurrent, items, totalTasks,
                  completedTasks, skippedTasks, total, results, downloadQueue,
                  chunks, chunk, tstate, tpath, idx, stage, clock, otherEvents,
                  files >>
  /\ RouteFollows

\* processExcelFile has returned: processDocumentsInBackground emits its own
\* complete event (lines 217-222).
BackgroundComplete ==
  /\ IsDoc /\ pc = "returned"
  /\ events' = Append(events, Completion(0, "none", results))
  /\ pc' = "done"
  /\ UNCHANGED << utility, data, maxConcurrent, items, totalTasks,
                  completedTasks, skippedTasks, total, results, downloadQueue,
                  chunks, chunk, tstate, tpath, idx, stage, clock, otherEvents,
                  archive, files >>
  /\ RouteFollows

\* processExcelFile has rethrown (line 157): the catch of
\* processDocumentsInBackground emits error again (lines 224-229).
BackgroundCatch ==
  /\ IsDoc /\ pc = "rethrown"
  /\ events' = Emit(events, "error", 0, NoTotal)
  /\ pc' = "done"
  /\ UNCHANGED << utility, data, maxConcurrent, items, totalTasks,
                  completedTasks, skippedTasks, total, results, downloadQueue,
                  chunks, chunk, tstate, tpath, idx, stage, clock, otherEvents,
                  archive, files >>
  /\ RouteFollows

\* ------------------------------------------------------------ specification
ThunkStep ==
  \E i \in DOMAIN tstate :
    \/ ThunkReturn(i)
    \/ MkdirDone(i)
    \/ RequestDone(i)
    \/ PipeDone(i)
    \/ StatDone(i)

JobStep ==
  \/ BackgroundStart
  \/ EnsureDirDone
  \/ PrepareAndStart
  \/ PrepareWithoutConfig
  \/ ThunkStep
  \/ ProcessDownloadQueueNext
  \/ BulkStart
  \/ WorkDone
  \/ RemoveDone
  \/ ArchiveClose
  \/ ArchiverError
  \/ OutputError
  \/ BackgroundComplete
  \/ BackgroundCatch

Next ==
  \/ Reject
  \/ JobStep

Spec == Init /\ [][Next]_vars

\* ------------------------------------------------ the broadcaster, sockets
\* socketHandlers.ts: clients connect, join and leave job rooms and
\* disconnect, while the emit functions are called for a job.  The job and
\* the route stand still here: the emit functions take the job id and the
\* event as arguments and read nothing else.
EmitFunctions == {"emitProgress", "emitCompletion", "emitError"}

\* io.on('connection'): a new socket is in no job room.
Connect(s) ==
  /\ alive /\ s \notin connected
  /\ connected' = connected \cup {s}
  /\ rooms' = [rooms EXCEPT ![s] = {}]
  /\ UNCHANGED << log, inbox >>
  /\ UNCHANGED << jobVars, routeVars, storeVars, numVars, bootVars >>

\* 'disconnect': socket.io takes the socket out of every room.
Disconnect(s) ==
  /\ s \in connected
  /\ connected' = connected \ {s}
  /\ rooms' = [rooms EXCEPT ![s] = {}]
  /\ UNCHANGED << log, inbox >>
  /\ UNCHANGED << jobVars, routeVars, storeVars, numVars, bootVars >>

\* socket.on('join:job'): socket.join(jobId).  (The 'joined:job'
\* acknowledgement goes to the joining socket alone and is no job event.)
JoinJob(s, j) ==
  /\ s \in connected
  /\ rooms' = [rooms EXCEPT ![s] = @ \cup {j}]
  /\ UNCHANGED << connected, log, inbox >>
  /\ UNCHANGED << jobVars, routeVars, storeVars, numVars, bootVars >>

\* socket.on('leave:job'): socket.leave(jobId).
LeaveJob(s, j) ==
  /\ s \in connected
  /\ rooms' = [rooms EXCEPT ![s] = @ \ {j}]
  /\ UNCHANGED << connected, log, inbox >>
  /\ UNCHANGED << jobVars, routeVars, storeVars, numVars, bootVars >>

InRoom(s, j) == s \in connected /\ j \in rooms[s]

\* Variant: a socket is sent the event once, in the room or not.
Copies_Once(s, j, e) == IF s \in connected THEN <<e>> ELSE <<>>

\* Variant: the event goes to the job's room only.
Copies_RoomOnly(s, j, e) == IF InRoom(s, j) THEN <<e>> ELSE <<>>

\* What one call sends to socket s: io.to(jobId).emit(event, data) reaches
\* the connected sockets of the room, io.emit(event, data) every connected
\* socket.
Copies(s, j, e) ==
  (IF InRoom(s, j) THEN <<e>> ELSE <<>>)
  \o (IF s \in connected THEN <<e>> ELSE <<>>)

\* What the function hands to emit: emitProgress and emitCompletion the data
\* they were given, emitError an object built of the job id, the error's
\* message and the time.
Payload(fn) == IF fn = "emitError" THEN "errorData" ELSE "data"

\* emitProgress, emitCompletion or emitError is called for job j.
EmitCall(fn, j) ==
  /\ Len(log) < MaxEmits
  /\ LET e == [n |-> Len(log) + 1, job |-> j, payload |-> Payload(fn)]
     IN /\ log' = Append(log, [job |-> j, payload |-> Payload(fn),
                               audience |-> connected,
                               room |-> {s \in Sockets : InRoom(s, j)}])
        /\ inbox' = [s \in Sockets |-> inbox[s] \o Copies(s, j, e)]
  /\ UNCHANGED << connected, rooms >>
  /\ UNCHANGED << jobVars, routeVars, storeVars, numVars, bootVars >>

\* A server whose routes are idle.
QuietJob ==
  /\ utility = "document-fetcher"
  /\ body = [list |-> "array", config |-> "given"]
  /\ data = <<>>
  /\ maxConcurrent = 1
  /\ items = <<>>
  /\ JobFresh

QuietRoute ==
  /\ io = TRUE
  /\ jobId = "none"
  /\ response = NoResponse

SocketInit == QuietJob /\ QuietRoute /\ SocketIdle /\ StoreIdle /\ NumIdle /\ BootIdle

SocketNext ==
  \/ \E s \in Sockets : Connect(s)
  \/ \E s \in Sockets : Disconnect(s)
  \/ \E s \in Sockets, j \in JobIds : JoinJob(s, j)
  \/ \E s \in Sockets, j \in JobIds : LeaveJob(s, j)
  \/ \E fn \in EmitFunctions, j \in JobIds : EmitCall(fn, j)

SocketSpec == SocketInit /\ [][SocketNext]_vars

\* ------------------------------------------ a job and its subscribers
\* One job of one utility runs while clients connect, join and leave rooms,
\* disconnect and send the events the server listens for.
\* socket.on('test'): the answer goes to the sending socket alone.
SendTest(s) ==
  /\ alive /\ s \in connected
  /\ Len(inbox[s]) < MaxSent
  /\ inbox' = [inbox EXCEPT ![s] =
                 Append(@, [n |-> 0, job |-> "none", payload |-> "test:response"])]
  /\ UNCHANGED << connected, rooms, log >>
  /\ UNCHANGED << jobVars, routeVars, storeVars, numVars, bootVars >>

\* What a client sends with a '<utility>:start' event: an object with the
\* jobId of its choice, or nothing (data is undefined).
StartData == JobIds \cup {"undefined"}

\* socket.on('<utility>:start', (data) => { socket.to(data.jobId).emit(
\* '<utility>:start', data) }).  With an object the event is relayed to the
\* other sockets of the room.  With no data, data.jobId throws a TypeError
\* in the listener; socket.io calls the listener from process.nextTick
\* without a try, no 'uncaughtException' handler is installed, and the
\* process exits: every job in it ends where it stands.
SendStart(s, d) ==
  /\ alive /\ s \in connected
  /\ IF d = "undefined"
     THEN /\ alive' = FALSE
          /\ pc' = "crashed"
          /\ connected' = {}
          /\ rooms' = [t \in Sockets |-> {}]
          /\ UNCHANGED << log, inbox >>
     ELSE /\ \A t \in Sockets : Len(inbox[t]) < MaxSent
          /\ inbox' = [t \in Sockets |->
                         IF t # s /\ InRoom(t, d)
                         THEN Append(inbox[t],
                                     [n |-> 0, job |-> d, payload |-> "start"])
                         ELSE inbox[t]]
          /\ UNCHANGED << connected, rooms, log, alive, pc >>
  /\ UNCHANGED << utility, data, maxConcurrent, items, totalTasks,
                  completedTasks, skippedTasks, total, results, downloadQueue,
                  chunks, chunk, tstate, tpath, idx, stage, clock, events,
                  otherEvents, archive, files >>
  /\ UNCHANGED << jobs, store, now, removed, requests, sweep >>
  /\ UNCHANGED << routeVars, numVars, bootVars >>

SubscriberStep ==
  \/ \E s \in Sockets : Connect(s)
  \/ \E s \in Sockets : Disconnect(s)
  \/ \E s \in Sockets, j \in JobIds : JoinJob(s, j)
  \/ \E s \in Sockets, j \in JobIds : LeaveJob(s, j)
  \/ \E s \in Sockets : SendTest(s)
  \/ \E s \in Sockets, d \in StartData : SendStart(s, d)

\* The submits of at most one row or item.
FrameInit == Init /\ Len(data) <= 1 /\ Len(items) <= 1

FrameNext ==
  \/ Reject
  \/ JobStep
  \/ SubscriberStep

FrameSpec == FrameInit /\ [][FrameNext]_vars

\* -------------------------------------- the download directory, downloads
\* Jobs write their archives into the download directory, the clean-up of a
\* document-fetch job removes old entries, and clients ask for the download
\* of a job.  A job is taken here as a whole: submitted, then over.
ZipPrefix(u) ==
  CASE u = "document-fetcher" -> "documents_"
    [] u = "image-resizer" -> "resized-images_"
    [] u = "file-converter" -> "converted-files_"
    [] OTHER -> "qr-codes_"

\* Where the job's archive is written: <prefix><jobId>.zip in the download
\* directory; the password files go to passwords/passwords_<jobId>_<t>.txt
\* (.csv, .json), t being Date.now().
ArchivePath(u, id, t) ==
  IF u = "password-generator"
  THEN [dir |-> "passwords", base |-> <<"passwords_", id, "_", t, ".txt">>]
  ELSE [dir |-> "", base |-> <<ZipPrefix(u), id, ".zip">>]

\* Where GET /download/:param of utility u looks: the document fetcher for
\* documents_<param>.zip, the others for a file named <param> in the
\* directory of their single outputs.
DownloadPath(u, param) ==
  CASE u = "document-fetcher" -> [dir |-> "", base |-> <<"documents_", param, ".zip">>]
    [] u = "image-resizer" -> [dir |-> "resized-images", base |-> <<param>>]
    [] u = "file-converter" -> [dir |-> "converted-files", base |-> <<param>>]
    [] u = "qr-code" -> [dir |-> "qr-codes", base |-> <<param>>]
    [] OTHER -> [dir |-> "passwords", base |-> <<param>>]

FileAt(st, p) == {f \in st : f.path = p}

\* The path of directory d of the download directory.
DirEntry(d) == [dir |-> d, base |-> <<>>]

\* Variant: writing a file empties the download directory first.
WriteFile_Truncating(st, p, c) ==
  {[path |-> p, content |-> c, mtime |-> now]}
  \cup (IF p.dir = "" THEN {}
        ELSE {[path |-> DirEntry(p.dir), content |-> "dir", mtime |-> now]})

\* fs.ensureDir, then fs.createWriteStream / fs.writeFile: the file at p is
\* replaced.  Creating a file renews the last-modified time of the directory
\* it is created in; writing over an existing file does not.
WriteFile(st, p, c) ==
  LET renews == p.dir # "" /\ FileAt(st, p) = {}
  IN {f \in st : f.path # p /\ ~(renews /\ f.path = DirEntry(p.dir))}
     \cup {[path |-> p, content |-> c, mtime |-> now]}
     \cup (IF renews
           THEN {[path |-> DirEntry(p.dir), content |-> "dir", mtime |-> now]}
           ELSE {})

\* The last-modified time of the entry of the download directory that holds
\* f: the file's own, or that of the directory it is in.
EntryMtime(st, f) ==
  IF f.path.dir = "" THEN f.mtime
  ELSE (CHOOSE g \in st : g.path = DirEntry(f.path.dir)).mtime

\* Variant: an entry of exactly maxAge is removed as well.
Expired_AtMaxAge(st) == {f \in st : now - EntryMtime(st, f) >= maxAge}

\* if (now - stats.mtime.getTime() > maxAge)
Expired(st) == {f \in st : now - EntryMtime(st, f) > maxAge}

\* What a run of cleanupOldFiles may remove: every expired entry, or, when
\* readdir, a stat or a remove fails, only some of them (the error is caught
\* and the loop is left); an entry goes with all it holds.
Sweeps(st) ==
  {S \in SUBSET Expired(st) :
     \A f \in S, g \in st :
       (f.path.dir # "" /\ g.path.dir = f.path.dir) => g \in S}

\* A bulk submit of utility u is accepted with the generated job id j.  The
\* document fetcher first runs cleanupOldFiles.
SubmitJob(j, u) ==
  /\ alive /\ jobs[j].st = "none"
  /\ jobs' = [jobs EXCEPT ![j] = [utility |-> u, st |-> "running", id |-> j]]
  /\ IF u = "document-fetcher"
     THEN \E S \in Sweeps(store) :
            /\ store' = store \ S
            /\ removed' = removed \cup {f.path : f \in S}
     ELSE UNCHANGED << store, removed >>
  /\ UNCHANGED << now, requests, alive, sweep >>
  /\ UNCHANGED << jobVars, routeVars, socketVars, numVars, bootVars >>

\* const finalJobId = jobId || `qr-bulk-...`: a bulk submit of QR codes or
\* of passwords is accepted with the job id its caller supplies, here one
\* that an earlier submit was answered with.  Nothing looks the id up.
SubmitWithId(j, u, id) ==
  /\ alive /\ jobs[j].st = "none"
  /\ u \in {"qr-code", "password-generator"}
  /\ \E k \in JobIds : jobs[k].st # "none" /\ jobs[k].id = id
  /\ jobs' = [jobs EXCEPT ![j] = [utility |-> u, st |-> "running", id |-> id]]
  /\ UNCHANGED << store, removed, now, requests, alive, sweep >>
  /\ UNCHANGED << jobVars, routeVars, socketVars, numVars, bootVars >>

\* The job's archive step ends.  The archive is written and closed: complete.
\* The compressor fails (a write of the password files fails): the file
\* that was opened stays as it is, error.  The output stream fails to open:
\* no file; the process dies, or 'close' follows and complete is emitted.
FinishJob(j) ==
  /\ alive /\ jobs[j].st = "running"
  /\ LET p == ArchivePath(jobs[j].utility, jobs[j].id, now)
     IN \/ /\ store' = WriteFile(store, p, j)
           /\ jobs' = [jobs EXCEPT ![j].st = "complete"]
           /\ alive' = alive
        \/ /\ store' = WriteFile(store, p, "partial")
           /\ jobs' = [jobs EXCEPT ![j].st = "error"]
           /\ alive' = alive
        \/ /\ jobs[j].utility # "password-generator"
           /\ store' = store
           /\ \/ /\ jobs' = [jobs EXCEPT ![j].st = "complete"]
                 /\ alive' = alive
              \/ /\ jobs' = jobs
                 /\ alive' = FALSE
  /\ UNCHANGED << now, removed, requests, sweep >>
  /\ UNCHANGED << jobVars, routeVars, socketVars, numVars, bootVars >>

\* The file a document-fetch job downloads for the photo of R1.
ItemFile ==
  FinalFilePath(FilePath("R1", ColumnMapping[1].col, ColumnMapping[1].folder),
                getFileExtension("application/pdf"))

\* processDocument and downloadFileWithProgress of a running document-fetch
\* job: fs.ensureDir(folderPath), and the response is written to the file
\* named after the registration number and the column.
DownloadItem(j) ==
  /\ alive /\ jobs[j].st = "running" /\ jobs[j].utility = "document-fetcher"
  /\ store' = WriteFile(store, ItemFile, j)
  /\ UNCHANGED << jobs, now, removed, requests, alive, sweep >>
  /\ UNCHANGED << jobVars, routeVars, socketVars, numVars, bootVars >>

\* Half a day passes.
Tick ==
  /\ alive /\ now < 12 * MaxTicks
  /\ now' = now + 12
  /\ UNCHANGED << jobs, store, removed, requests, alive, sweep >>
  /\ UNCHANGED << jobVars, routeVars, socketVars, numVars, bootVars >>

\* The content of the file of a set of at most one file.
ContentOf(fs) == IF fs = {} THEN "none" ELSE (CHOOSE f \in fs : TRUE).content

\* The archive a job of utility u and job id id has written, if it is in the
\* directory.
JobArchive(st, u, id) ==
  {f \in st : \E t \in 0..(12 * MaxTicks) : f.path = ArchivePath(u, id, t)}

\* GET /download/<j> of the route of job j's utility, once the job is over:
\* the file is streamed, or the answer is 404.
Download(j) ==
  /\ alive /\ jobs[j].st \in {"complete", "error"}
  /\ Len(requests) < MaxDownloads
  /\ LET found == FileAt(store, DownloadPath(jobs[j].utility, jobs[j].id))
         seen == [job |-> j, after |-> jobs[j].st, at |-> now,
                  archive |-> ContentOf(JobArchive(store, jobs[j].utility,
                                                  jobs[j].id)),
                  swept |-> removed,
                  others |-> {k \in JobIds \ {j} : jobs[k].st # "none"}]
     IN requests' =
          Append(requests,
                 [code |-> IF found = {} THEN 404 ELSE 200,
                  content |-> ContentOf(found)] @@ seen)
  /\ UNCHANGED << jobs, store, now, removed, alive, sweep >>
  /\ UNCHANGED << jobVars, routeVars, socketVars, numVars, bootVars >>

StoreInit == QuietJob /\ QuietRoute /\ SocketIdle /\ StoreIdle /\ NumIdle /\ BootIdle

StoreNext ==
  \/ \E j \in JobIds, u \in Utilities : SubmitJob(j, u)
  \/ \E j, id \in JobIds, u \in Utilities : SubmitWithId(j, u, id)
  \/ \E j \in JobIds : FinishJob(j)
  \/ Tick
  \/ \E j \in JobIds : Download(j)

StoreSpec == StoreInit /\ [][StoreNext]_vars

\* The download directory under the jobs' writes and the clean-up alone: the
\* jobs of every utility, the item files of the document fetcher, the time.
SweepNext ==
  \/ \E j \in JobIds, u \in Utilities : SubmitJob(j, u)
  \/ \E j \in JobIds : DownloadItem(j)
  \/ \E j \in JobIds : FinishJob(j)
  \/ Tick

SweepSpec == StoreInit /\ [][SweepNext]_vars

\* ------------------------------------ the clean-up inside a document fetch
\* processExcelFile, lines 25-29, with cleanupOldFiles followed into the
\* download directory: the job awaits the sweep, which removes what has
\* expired, or fails on the way and catches its own error.
OldArchive ==
  [path |-> ArchivePath("document-fetcher", "j1", 0), content |-> "j1",
   mtime |-> 0]

OldItems ==
  {[path |-> DirEntry(ItemFile.dir), content |-> "dir", mtime |-> 0],
   [path |-> ItemFile, content |-> "j1", mtime |-> 0]}

\* The download directory an earlier job has left behind.
OldStores == {{}, {OldArchive}, {OldArchive} \cup OldItems}

\* Variant: the error of the sweep is not caught; it leaves processExcelFile
\* before its try block and reaches the catch of the background function.
CleanupOldFiles_Rethrows ==
  /\ IsDoc /\ pc = "cleanup" /\ sweep = "none"
  /\ \E S \in Sweeps(store) :
       /\ store' = store \ S
       /\ removed' = removed \cup {f.path : f \in S}
       /\ sweep' \in (IF S = Expired(store) THEN {"done", "failed"}
                      ELSE {"failed"})
  /\ pc' = IF sweep' = "failed" THEN "rethrown" ELSE pc
  /\ UNCHANGED << utility, data, maxConcurrent, items, totalTasks,
                  completedTasks, skippedTasks, total, results, downloadQueue,
                  chunks, chunk, tstate, tpath, idx, stage, clock, events,
                  otherEvents, archive, files >>
  /\ UNCHANGED << jobs, now, requests, alive >>
  /\ UNCHANGED << routeVars, socketVars, numVars, bootVars >>

\* cleanupOldFiles, lines 415-433: readdir, then stat and, for an expired
\* entry, remove, one entry after the other; the first error ends the loop
\* in the catch, which logs it.  The sweep is done, or it has failed with
\* some or none of the expired entries removed.
CleanupOldFiles ==
  /\ IsDoc /\ pc = "cleanup" /\ sweep = "none"
  /\ \E S \in Sweeps(store) :
       /\ store' = store \ S
       /\ removed' = removed \cup {f.path : f \in S}
       /\ sweep' \in (IF S = Expired(store) THEN {"done", "failed"}
                      ELSE {"failed"})
  /\ UNCHANGED << jobs, now, requests, alive >>
  /\ UNCHANGED << jobVars, routeVars, socketVars, numVars, bootVars >>

\* The steps of the document fetch; processExcelFile goes on from its
\* await of cleanupOldFiles once the sweep has ended.
FetchStep ==
  /\ pc = "cleanup" => sweep # "none"
  /\ \/ BackgroundStart
     \/ EnsureDirDone
     \/ PrepareAndStart
     \/ PrepareWithoutConfig
     \/ ThunkStep
     \/ ProcessDownloadQueueNext
     \/ ArchiveClose
     \/ ArchiverError
     \/ OutputError
     \/ BackgroundComplete
     \/ BackgroundCatch

\* A document-fetch submit of at most two rows, a day and a half after an
\* earlier job.
CleanInit ==
  /\ JobInit /\ RouteInit
  /\ IsDoc /\ Len(data) <= 2
  /\ SocketIdle /\ NumIdle /\ BootIdle
  /\ jobs = [j \in JobIds |-> [utility |-> "none", st |-> "none", id |-> "none"]]
  /\ store \in OldStores
  /\ now = 36
  /\ removed = {}
  /\ requests = <<>>
  /\ alive = TRUE
  /\ sweep = "none"

CleanNext == Reject \/ CleanupOldFiles \/ FetchStep

CleanSpec == CleanInit /\ [][CleanNext]_vars

\* ------------------------------------------------- the progress numbers
\* The numbers in a job's progress events, from the submit on.  A total is
\* held in halves, so that a config.count of 2.5 is the total 5: the
\* password route accepts every count from 1 to 1000, whole or not, and
\* generateBulkPasswords takes it as its total.  The other totals are the
\* lengths of files, of configs and of the download queue.
Totals(u) ==
  IF u = "password-generator" THEN 0..(2 * MaxCount + 1)
  ELSE {2 * n : n \in 0..MaxCount}

\* (completed / total) * 100, as the fraction num / den.
Percentage(completed, halves) == [num |-> 200 * completed, den |-> halves]

\* { jobId, current, total, progress, result, timestamp }
ProgressPayload(completed, halves) ==
  [current |-> completed, total |-> halves,
   progress |-> Percentage(completed, halves)]

\* What the route tests of the count or of the list's length.
NumAccepted ==
  CASE numUtility = "password-generator" ->
         totalHalves >= 2 /\ totalHalves <= 2 * 1000
    [] numUtility \in {"image-resizer", "file-converter"} -> totalHalves > 0
    [] OTHER -> TRUE

NumReject ==
  /\ numStage = "idle" /\ ~NumAccepted
  /\ numStage' = "rejected"
  /\ UNCHANGED << numUtility, totalHalves, loopIndex, progressLog >>
  /\ UNCHANGED << jobVars, routeVars, socketVars, storeVars, bootVars >>

\* The job function is called and reaches its loop.
NumStart ==
  /\ numStage = "idle" /\ NumAccepted
  /\ numStage' = "loop"
  /\ UNCHANGED << numUtility, totalHalves, loopIndex, progressLog >>
  /\ UNCHANGED << jobVars, routeVars, socketVars, storeVars, bootVars >>

\* for (let i = 0; i < total; i++): one more item ends, as a success or as
\* a failure, and its progress event is emitted with current = i + 1.
NumProgress ==
  /\ numStage = "loop" /\ 2 * loopIndex < totalHalves
  /\ loopIndex' = loopIndex + 1
  /\ progressLog' =
       Append(progressLog, ProgressPayload(loopIndex + 1, totalHalves))
  /\ UNCHANGED << numUtility, totalHalves, numStage >>
  /\ UNCHANGED << jobVars, routeVars, socketVars, storeVars, bootVars >>

\* The loop condition fails: the job goes on to its archive.
NumEnd ==
  /\ numStage = "loop" /\ ~(2 * loopIndex < totalHalves)
  /\ numStage' = "done"
  /\ UNCHANGED << numUtility, totalHalves, loopIndex, progressLog >>
  /\ UNCHANGED << jobVars, routeVars, socketVars, storeVars, bootVars >>

NumInit ==
  /\ QuietJob /\ QuietRoute /\ SocketIdle /\ StoreIdle /\ BootIdle
  /\ numUtility \in Utilities
  /\ totalHalves \in Totals(numUtility)
  /\ loopIndex = 0
  /\ numStage = "idle"
  /\ progressLog = <<>>

NumNext == NumReject \/ NumStart \/ NumProgress \/ NumEnd

NumSpec == NumInit /\ [][NumNext]_vars

\* ------------------------------------------------------ process startup
\* index.ts, lines 402-406 and 526-548: the five route modules are imported
\* by their default export, tested for a property 'setSocketIO' and mounted;
\* then the server listens and the routes serve requests.
RouteModules ==
  << "document-fetcher", "file-converter", "qr-code", "password-generator",
     "image-resizer" >>

\* What a route module exports: 'export function setSocketIO' and
\* 'export default router'.
ModuleExports == {"setSocketIO", "default"}

\* The properties of express.Router(), own and inherited: the router
\* function's fields and the methods of its prototype.
RouterProperties ==
  {"params", "stack", "caseSensitive", "mergeParams", "strict", "param",
   "handle", "process_params", "use", "route", "all", "get", "post", "put",
   "delete", "name", "length", "call", "apply", "bind", "toString",
   "hasOwnProperty", "constructor"}

\* import <x>Routes from './routes/<x>.js' binds the module's default
\* export, the router; the module's other exports are not properties of it.
DefaultImport ==
  IF "default" \in ModuleExports THEN RouterProperties ELSE {}

\* if ('setSocketIO' in <x>Routes) (<x>Routes as any).setSocketIO(io)
WireRoute ==
  /\ ~serving /\ wiring <= Len(RouteModules)
  /\ wiring' = wiring + 1
  /\ installed' = IF "setSocketIO" \in DefaultImport
                  THEN installed \cup {RouteModules[wiring]}
                  ELSE installed
  /\ io' = (utility \in installed')
  /\ UNCHANGED << body, jobId, response, serving >>
  /\ UNCHANGED << jobVars, socketVars, storeVars, numVars >>

\* app.use('/api/...', <x>Routes) five times, setupSocketHandlers(io),
\* server.listen(PORT).
Listen ==
  /\ ~serving /\ wiring > Len(RouteModules)
  /\ serving' = TRUE
  /\ UNCHANGED << wiring, installed >>
  /\ UNCHANGED << jobVars, routeVars, socketVars, storeVars, numVars >>

\* A bulk submit arrives at the listening server: the handler rejects it, or
\* allocates a job id and calls the job function.
ServeSubmit ==
  /\ serving
  /\ Reject \/ BackgroundStart \/ BulkStart

\* The module-level 'let io: Server' of a route module is undefined when the
\* module has been loaded.
BootInit ==
  /\ JobInit
  /\ io = FALSE /\ jobId = "none" /\ response = NoResponse
  /\ SocketIdle /\ StoreIdle /\ NumIdle /\ BootIdle

BootNext == WireRoute \/ Listen \/ ServeSubmit

BootSpec == BootInit /\ [][BootNext]_vars

\* ------------------------------------------------------------------ claims
Kinds == {events[n].kind : n \in 1..Len(events)}

Started == "start" \in Kinds

Terminal == "complete" \in Kinds \/ "error" \in Kinds

\* processDownloadQueue has been entered and has not returned.
InQueue == pc = "queue"

\* processDownloadQueue has returned.
QueueReturned == IsDoc /\ pc \in {"archive", "returned", "rethrown", "done", "crashed"}
                 /\ archive.st # "none"

\* C1: at every instant of processDownloadQueue, for every configured
\* maxConcurrent = k >= 1, at most k thunks have been started and have not
\* yet settled.
C1_InFlightAtMostMaxConcurrent ==
  (IsDoc /\ maxConcurrent >= 1) => Cardinality(InFlight) <= maxConcurrent

\* C1 witness: the limit binds: k >= 2 thunks are in flight while another
\* thunk of the queue waits for its chunk.
C1_Witness ==
  /\ InQueue /\ maxConcurrent >= 2
  /\ Cardinality(InFlight) = maxConcurrent
  /\ \E i \in DOMAIN tstate : tstate[i] = "queued"

\* C10: no thunk of chunk K+1 is started before every thunk of chunk K has
\* settled, and processDownloadQueue returns only after every thunk of the
\* queue has settled.
C10_ChunksStrictlySequential ==
  /\ \A c \in 1..Len(chunks) : \A d \in (c + 1)..Len(chunks) :
       (\E j \in Range(chunks[d]) : tstate[j] # "queued")
       => \A i \in Range(chunks[c]) : Settled(i)
  /\ QueueReturned => \A i \in DOMAIN tstate : Settled(i)

\* C10 witness: the queue of two or more chunks, the first of two thunks or
\* more, has been run and processDownloadQueue has returned.
C10_Witness ==
  /\ QueueReturned
  /\ Len(chunks) >= 2
  /\ Len(chunks[1]) >= 2

\* The work items of the job: the queued thunks of a document-fetch job,
\* the submitted items of a sequential job.
WorkItems ==
  IF IsDoc THEN {downloadQueue[i].item : i \in DOMAIN downloadQueue}
  ELSE {<<i, 0>> : i \in 1..Len(items)}

ItemResults(it) == SelectSeq(results, LAMBDA r : r.item = it)

ProgressEvents == SelectSeq(events, LAMBDA e : e.kind = "progress")

\* The total of the job's start event (the last one that carries a total).
AnnouncedTotal ==
  LET starts == SelectSeq(events, LAMBDA e : e.kind = "start" /\ e.total # NoTotal)
  IN IF starts = <<>> THEN NoTotal ELSE starts[Len(starts)].total

\* C2: an item whose work function throws, rejects or fails validation has
\* one result, of status failed; the failure neither aborts the batch nor
\* emits error (error comes from the archive step or from the set-up only),
\* and complete is emitted only when every work item has a result.
C2_ItemFailureIsIsolated ==
  /\ \A it \in WorkItems :
       LET rs == ItemResults(it)
       IN (rs # <<>> /\ rs[1].status = "failed") => Len(rs) = 1
  /\ "complete" \in Kinds => \A it \in WorkItems : ItemResults(it) # <<>>
  /\ "error" \in Kinds =>
       \/ archive.st = "failed"
       \/ IsDoc /\ archive.st = "none" /\ downloadQueue = <<>>
  /\ archive.st = "closed" => ("complete" \in Kinds /\ "error" \notin Kinds)

\* C2 witness: a job has ended with complete and without error, and an item
\* that failed is followed in the results by an item that succeeded.
C2_Witness ==
  /\ "complete" \in Kinds /\ "error" \notin Kinds
  /\ \E m, n \in DOMAIN results :
       /\ m < n
       /\ results[m].status = "failed"
       /\ results[n].status = "success"
       /\ results[m].item # results[n].item

\* C3: once the job has emitted start, and every I/O operation ends, the job
\* eventually emits complete or error: as long as no terminal event has been
\* emitted, a step of the job is pending, so that the job never rests in a
\* state without a terminal event.  (A job whose process has died of the
\* archive output's error is left out: it does not wait.)
C3_NeverWaitsForever ==
  (Started /\ ~Terminal /\ pc # "crashed") => ENABLED Next

C5_ResultsEqualAnnouncedTotal ==
  "complete" \in Kinds =>
    Count(results, LAMBDA r : r.status = "success")
    + Count(results, LAMBDA r : r.status = "failed")
    + Count(results, LAMBDA r : r.status = "skipped") = AnnouncedTotal

\* C6: complete is emitted only after the archive has been fully written and
\* closed.
C6_CompleteOnlyAfterArchiveClosed ==
  "complete" \in Kinds => archive.st = "closed"

\* C7: the written archive holds, in order, one entry for each result of
\* status success that has an artifact location (each successful password
\* for the password files), and nothing else: no entry stands for a failed
\* or skipped result.
C7_ArchiveHoldsExactlyTheSuccesses ==
  archive.st = "closed" =>
    LET Q == SelectSeq(results, LAMBDA r :
               /\ r.status = "success"
               /\ (utility = "password-generator" \/ r.filePath # NoPath))
    IN /\ Len(archive.entries) = Len(Q)
       /\ \A n \in 1..Len(Q) :
            IF utility = "password-generator"
            THEN archive.entries[n].name = <<Q[n].item>>
            ELSE archive.entries[n].path = Q[n].filePath

\* C7 witness: the archive of a document-fetch job is closed with an entry,
\* while the results hold a failed and a skipped result as well.
C7_Witness ==
  /\ IsDoc /\ archive.st = "closed"
  /\ Len(archive.entries) >= 1
  /\ \E m, n \in DOMAIN results :
       results[m].status = "failed" /\ results[n].status = "skipped"

\* C8: two distinct successful items of one job have different artifact
\* file paths (hence different archive entry names).
C8_ArtifactPathsDistinct ==
  \A m, n \in DOMAIN results :
    (/\ results[m].status = "success" /\ results[n].status = "success"
     /\ results[m].item # results[n].item
     /\ results[m].filePath # NoPath)
    => results[m].filePath # results[n].filePath

\* C9: when the archive step has failed (the compressor reported an error,
\* or the write of the archive file failed) and the job is over, an error
\* event has been emitted and no complete event.
C9_ArchiveFailureEmitsError ==
  (archive.st \in {"failed", "broken"} /\ pc \in {"done", "crashed"})
  => ("error" \in Kinds /\ "complete" \notin Kinds)

\* ---------------------------------------------------------------- C11
Ceil(n, k) == (n + k - 1) \div k

\* The queue positions of the chunks, chunk after chunk.
RECURSIVE Flatten(_)
Flatten(cs) == IF cs = <<>> THEN <<>> ELSE Head(cs) \o Flatten(Tail(cs))

\* cs is the partition of the queue positions 1..n into ceil(n/k) consecutive
\* chunks, all of k positions but possibly the last, which is not empty.
Chunked(cs, n, k) ==
  /\ Len(cs) = Ceil(n, k)
  /\ Flatten(cs) = [j \in 1..n |-> j]
  /\ \A c \in 1..Len(cs) :
       IF c < Len(cs) THEN Len(cs[c]) = k
       ELSE Len(cs[c]) >= 1 /\ Len(cs[c]) <= k

\* How often thunk i has been invoked: once for each place it has in a chunk
\* that chunk.map(task => task()) has gone through.
Invocations(i) ==
  Cardinality({cp \in (1..Min(chunk, Len(chunks))) \X (1..Len(downloadQueue)) :
                 cp[2] <= Len(chunks[cp[1]]) /\ chunks[cp[1]][cp[2]] = i})

ChunkLengths(cs) == [c \in 1..Len(cs) |-> Len(cs[c])]

\* The chunking of every queue of up to MaxQueue thunks with every k up to
\* MaxChunk, and of the two queues the specification names.
ChunkingLaw ==
  /\ \A n \in 0..MaxQueue, k \in 1..MaxChunk : Chunked(BuildChunks(n, k, 0), n, k)
  /\ ChunkLengths(BuildChunks(5, 2, 0)) = <<2, 2, 1>>
  /\ ChunkLengths(BuildChunks(1000, 20, 0)) = [c \in 1..50 |-> 20]

\* C11: for a queue of N thunks and maxConcurrent = k >= 1 the chunks are
\* ceil(N/k) consecutive slices of the queue in queue order, each of k thunks
\* but possibly the last (5 thunks with k = 2 give chunks of 2, 2, 1; 1000
\* thunks with k = 20 give 50 chunks of 20); no thunk is invoked twice, and
\* when processDownloadQueue has returned every thunk has been invoked once.
C11_ChunksPartitionTheQueue ==
  /\ ChunkingLaw
  /\ (IsDoc /\ maxConcurrent >= 1 /\ (InQueue \/ QueueReturned))
     => Chunked(chunks, Len(downloadQueue), maxConcurrent)
  /\ (IsDoc /\ maxConcurrent >= 1) =>
       \A i \in DOMAIN tstate :
         LET n == Invocations(i)
         IN /\ n <= 1
            /\ n = 1 <=> tstate[i] # "queued"
            /\ QueueReturned => n = 1

\* C11 witness: a queue of three thunks run with k = 2 has returned; its
\* chunks were of 2 and 1 thunks.
C11_Witness ==
  /\ QueueReturned /\ maxConcurrent = 2
  /\ ChunkLengths(chunks) = <<2, 1>>
  /\ \A i \in DOMAIN tstate : Invocations(i) = 1

\* ---------------------------------------------------------------- C12
\* C12: a document-fetch batch submitted with maxConcurrent <= 0 is rejected,
\* or runs as with maxConcurrent = 1: the chunking ends and at most one thunk
\* is in flight at any time.
C12_NonPositiveRunsOneAtATime ==
  (IsDoc /\ body.config = "given" /\ maxConcurrent <= 0 /\ pc # "idle")
  => /\ pc # "chunking"
     /\ Cardinality(InFlight) <= 1

\* ---------------------------------------------------------------- C14
\* The submit fails at set-up: the broadcaster is not initialised, or the
\* input list is missing or not a list.
SetupFails == ~io \/ body.list = "missing"

\* C14: a bulk submit that fails at set-up is rejected: the handler's only
\* step is the rejection, with status 400 or 500, no job id is allocated and
\* no event is emitted, before the answer and after it.
C14_SetupFailureIsRejected ==
  SetupFails =>
    /\ response.st \in {"none", "rejected"}
    /\ response.st = "none" => (ENABLED Reject /\ ~ENABLED JobStep)
    /\ response.st = "rejected" => response.code \in {400, 500}
    /\ jobId = "none"
    /\ events = <<>> /\ otherEvents = {}
    /\ pc = "idle"

\* C14 witness: a submit with a valid list has been rejected with status 500
\* because the broadcaster was not initialised.
C14_Witness ==
  /\ ~io /\ ValidBody
  /\ response.st = "rejected" /\ response.code = 500

\* ---------------------------------------------------------------- C15
\* The configuration of the submit is invalid: a password configuration that
\* selects no character set, or a document-fetch submit without config.
InvalidConfig ==
  \/ utility = "password-generator" /\ body.config = "given"
     /\ items # <<>> /\ items[1] = "invalid"
  \/ IsDoc /\ body.config = "missing"

\* C15: a bulk submit whose configuration is invalid is rejected before any
\* work item runs and before a start event is emitted: it is never answered
\* with a job id, no start event is emitted and no item gets a result.
C15_InvalidConfigRejectedBeforeStart ==
  InvalidConfig =>
    /\ response.st \in {"none", "rejected"}
    /\ ~Started
    /\ results = <<>>

\* ---------------------------------------------------------------- C16
\* C16: the answer that carries the job id is sent before any event of the
\* job is emitted and before any work item begins: at the moment it is sent
\* the job has emitted no event and has called no work function.
C16_ResponsePrecedesEventsAndWork ==
  response.st = "sent" => (response.after = 0 /\ response.begun = 0)

\* ---------------------------------------------------------------- C19
\* The submit is well formed and its input list is empty: no row, no file,
\* no config, a count of 0.
EmptyInput ==
  /\ io /\ body.list = "array" /\ body.config = "given"
  /\ IF IsDoc THEN data = <<>> ELSE items = <<>>

\* C19: for every utility a submit with an empty input list is not rejected;
\* it yields a job that emits no error (unless the archive step fails) and
\* whose complete event follows a start of total 0 and an empty archive.
C19_EmptyInputCompletes ==
  EmptyInput =>
    /\ response.st # "rejected"
    /\ "error" \in Kinds => archive.st = "failed"
    /\ "complete" \in Kinds => (AnnouncedTotal = 0 /\ archive.entries = <<>>)

\* ---------------------------------------------------------------- C20
NoSuccess == \A n \in DOMAIN results : results[n].status # "success"

\* The job was set up (its start event announced a total) and is past its
\* items: the download queue has returned, the loop has ended.
ItemsOver ==
  /\ body.config = "given" /\ AnnouncedTotal # NoTotal
  /\ pc \notin {"idle", "ensureDir", "cleanup", "chunking", "queue", "loop"}

\* C20: a job none of whose items succeeded still runs its archive step and
\* ends with complete: once the items are over the archive has been started,
\* with no entry; while it is being written its close is pending; and once
\* it is closed the job has emitted complete and no error.
C20_NoSuccessStillArchivesAndCompletes ==
  (ItemsOver /\ NoSuccess) =>
    /\ archive.st # "none"
    /\ archive.entries = <<>>
    /\ archive.st = "writing" => ENABLED ArchiveClose
    /\ archive.st = "closed" => ("complete" \in Kinds /\ "error" \notin Kinds)
    /\ (archive.st = "closed" /\ pc = "done")
       => events[Len(events)].kind = "complete"

\* C20 witness: a job of two items or more, all failed, has closed its empty
\* archive and ended with complete.
C20_Witness ==
  /\ ItemsOver /\ NoSuccess /\ pc = "done"
  /\ Cardinality(WorkItems) >= 2
  /\ \A n \in DOMAIN results : results[n].status = "failed"
  /\ archive.st = "closed" /\ archive.entries = <<>>
  /\ events[Len(events)].kind = "complete"

\* ---------------------------------------------------------------- C13
\* Whether socket s was sent the event of call n.
Received(s, n) == \E m \in DOMAIN inbox[s] : inbox[s][m].n = n

\* C13: every call of emitProgress, emitCompletion or emitError sends the
\* event to every socket connected at that moment, in the job's room or not.
C13_EveryConnectedSubscriberReceives ==
  \A n \in DOMAIN log : \A s \in log[n].audience : Received(s, n)

\* C13 witness: of two calls for one job, the second reached a socket that
\* had been in the job's room at the first call and was no longer in it, and
\* a call reached a socket that joined the room only afterwards.
C13_Witness ==
  \E m, n \in DOMAIN log :
    /\ m < n /\ log[m].job = log[n].job
    /\ \E s \in log[m].room :
         s \in log[n].audience \ log[n].room /\ Received(s, n)
    /\ \E t \in log[m].audience \ log[m].room :
         Received(t, m) /\ InRoom(t, log[m].job)

\* ---------------------------------------------------------------- C17
\* C17: for every utility, a download asked for with the id of a job that
\* has emitted complete serves the archive the job wrote if that archive is
\* in the download directory, and answers not-found only if it is not.
C17_DownloadServesTheJobsArchive ==
  \A n \in DOMAIN requests :
    LET r == requests[n]
    IN r.after = "complete" =>
         /\ r.archive # "none" => (r.code = 200 /\ r.content = r.archive)
         /\ r.code = 404 => r.archive = "none"

\* ---------------------------------------------------------------- C18
SameAnswer(q, r) == q.code = r.code /\ q.content = r.content

\* C18 as stated: any two downloads asked for with the id of a completed
\* job give the same content, whatever was submitted, run or swept between.
C18_DownloadsAlwaysAgree ==
  \A m, n \in DOMAIN requests :
    (/\ m < n /\ requests[m].job = requests[n].job
     /\ requests[m].after = "complete")
    => SameAnswer(requests[m], requests[n])

\* C18, amended: two downloads asked for with the id of a completed job give
\* the same content unless the clean-up of a document-fetch job has removed
\* the file between them, after which the answer is not-found.
C18_DownloadsAgreeUntilSwept ==
  \A m, n \in DOMAIN requests :
    (/\ m < n /\ requests[m].job = requests[n].job
     /\ requests[m].after = "complete")
    => \/ SameAnswer(requests[m], requests[n])
       \/ /\ requests[n].code = 404
          /\ DownloadPath(jobs[requests[n].job].utility, requests[n].job)
               \in requests[n].swept \ requests[m].swept

\* C18 witness: the archive of a completed job was served twice with the
\* same content, half a day or more apart, another job having been submitted
\* between the two requests.
C18_Witness ==
  \E m, n \in DOMAIN requests :
    /\ m < n /\ requests[m].job = requests[n].job
    /\ requests[m].after = "complete"
    /\ requests[m].code = 200 /\ requests[n].code = 200
    /\ requests[m].content = requests[m].job
    /\ requests[n].content = requests[m].content
    /\ requests[m].at < requests[n].at
    /\ requests[m].others # requests[n].others

\* ---------------------------------------------------------------- C21
\* C21: every result with status failed carries an error, and no result
\* with status success or skipped carries an error field, whichever way the
\* item failed.
C21_FailedResultsCarryAnError ==
  \A n \in DOMAIN results :
    /\ results[n].status = "failed" => results[n].error
    /\ results[n].status \in {"success", "skipped"} => ~results[n].error

\* ---------------------------------------------------------------- C22
\* C22: every complete event emitted for a job carries the location of the
\* job's archive and the full result set.
C22_CompleteCarriesArchiveAndResults ==
  \A n \in DOMAIN events :
    events[n].kind = "complete" =>
      /\ events[n].location # "none"
      /\ events[n].results = results

\* ---------------------------------------------------------------- C23
\* C23: in every progress event the percentage equals completed / total *
\* 100 and lies in [0, 100], and no progress event has the total 0.
C23_PercentageWithinBounds ==
  \A n \in DOMAIN progressLog :
    LET e == progressLog[n]
    IN /\ e.total # 0
       /\ e.progress = Percentage(e.current, e.total)
       /\ 0 <= e.progress.num
       /\ e.progress.num <= 100 * e.progress.den

\* ---------------------------------------------------------------- C24
\* C24: no two jobs running at the same time have the same job id, also when
\* the caller supplies the id, so no two running jobs write to the same
\* archive or output path.
C24_RunningJobsHaveDistinctIds ==
  \A j, k \in JobIds :
    (j # k /\ jobs[j].st = "running" /\ jobs[k].st = "running")
    => /\ jobs[j].id # jobs[k].id
       /\ ArchivePath(jobs[j].utility, jobs[j].id, now)
            # ArchivePath(jobs[k].utility, jobs[k].id, now)

\* ---------------------------------------------------------------- C25
\* C25: nothing a subscriber does (connect, join or leave a room,
\* disconnect, send a test or a start event) changes a job's results,
\* completed count, archive, events or the position of its driver.
C25_SubscribersLeaveJobsAlone == [][SubscriberStep => UNCHANGED jobVars]_vars

\* ---------------------------------------------------------------- C26
\* C26: every event emitted for a job is one of the four kinds start,
\* progress, complete and error of its utility's namespace; no event of
\* another name is emitted for it.
C26_OnlyLifecycleEvents ==
  /\ \A n \in DOMAIN events :
       events[n].kind \in {"start", "progress", "complete", "error"}
  /\ otherEvents = {}

\* ---------------------------------------------------------------- C27
\* An entry of the download directory: a file of the directory itself or one
\* of its directories.
IsEntry(f) == f.path.dir = "" \/ f.path = DirEntry(f.path.dir)

\* C27: an entry of the download directory disappears only if its
\* last-modified time is more than 24 hours in the past, and a run of the
\* clean-up leaves every younger entry as it is, whatever the state of the
\* job that wrote it.
C27_SweepRemovesOnlyExpiredEntries ==
  [][\A f \in store :
       IsEntry(f) =>
         /\ FileAt(store', f.path) = {} => now - f.mtime > maxAge
         /\ (/\ now - f.mtime <= maxAge
             /\ \E j \in JobIds : SubmitJob(j, "document-fetcher"))
            => f \in store']_vars

\* C27 witness: a run of the clean-up at the start of a document-fetch job
\* has removed a directory of more than 24 hours with the file in it and has
\* left in place an entry that is exactly 24 hours old; the job that ran the
\* clean-up is still running.
C27_Witness ==
  /\ ItemFile \in removed /\ FileAt(store, ItemFile) = {}
  /\ \E f \in store : IsEntry(f) /\ now - f.mtime = maxAge
  /\ \E j \in JobIds :
       jobs[j].st = "running" /\ jobs[j].utility = "document-fetcher"

\* ---------------------------------------------------------------- C28
\* C28: once complete or error has been emitted for a job no further event
\* is emitted for it: a job has at most one terminal event, never both.
C28_NothingAfterTerminal ==
  \A n \in DOMAIN events :
    events[n].kind \in {"complete", "error"} => n = Len(events)

\* ---------------------------------------------------------------- C29
\* The place of an event kind in a job's life.
Rank(kind) ==
  CASE kind = "start" -> 1
    [] kind = "progress" -> 2
    [] OTHER -> 3

\* C29: a job's events come in the order start, progress, terminal: the
\* first event is a start, no progress event precedes a start or follows a
\* terminal event, and once the archive is being built no further progress
\* event is emitted.
C29_EventsInLifecycleOrder ==
  /\ [](/\ events # <<>> => events[1].kind = "start"
        /\ \A m, n \in DOMAIN events :
             m < n => Rank(events[m].kind) <= Rank(events[n].kind))
  /\ [][archive.st # "none" => ProgressEvents' = ProgressEvents]_vars

\* C29 witness: an image-resize job of three files has emitted start, three
\* progress events and complete, and its archive is closed.
C29_Witness ==
  /\ utility = "image-resizer" /\ Len(items) = 3
  /\ Len(events) = 5 /\ Len(ProgressEvents) = 3
  /\ events[5].kind = "complete"
  /\ archive.st = "closed"

\* ---------------------------------------------------------------- C30
\* C30: a job emits exactly one start event, which carries the job's total;
\* every progress event carries that total, and when the job completes the
\* progress events number that total.
C30_OneStartCarryingTheTotal ==
  LET starts == SelectSeq(events, LAMBDA e : e.kind = "start")
      P == ProgressEvents
  IN /\ Len(starts) <= 1
     /\ \A n \in DOMAIN starts : starts[n].total # NoTotal
     /\ \A n \in DOMAIN P : P[n].total = AnnouncedTotal
     /\ "complete" \in Kinds => Len(P) = AnnouncedTotal

\* ---------------------------------------------------------------- C31
IsPrefix(s, t) == Len(s) <= Len(t) /\ SubSeq(t, 1, Len(s)) = s

\* The results have been read: the archive step has taken its entries from
\* them, or a complete event carries them.
ResultsRead == archive.st # "none" \/ "complete" \in Kinds

\* Every item is over: the download queue's last chunk has settled, the
\* sequential loop has left its last item.
AllItemsOver ==
  IF IsDoc
  THEN /\ pc # "queue"
       /\ chunk >= Len(chunks)
       /\ \A i \in DOMAIN tstate : Settled(i)
  ELSE pc # "loop" /\ idx = Len(items)

\* C31: during a job the results only grow by appending, and the archive
\* step and the complete event read them only after every chunk has settled:
\* the archive's entries and the results a complete event carries are those
\* of the final results.
C31_ResultsAppendOnlyReadAfterAllSettled ==
  /\ [](ResultsRead =>
          /\ AllItemsOver
          /\ archive.entries = ArchiveEntries(utility, results, files)
          /\ \A n \in DOMAIN events :
               events[n].kind = "complete" => events[n].results = results)
  /\ [][IsPrefix(results, results')]_vars

C31_Witness ==
  /\ IsDoc /\ Len(chunks) = 2 /\ pc = "done"
  /\ "complete" \in Kinds
  /\ Len(results) = 3
  /\ results[1].status = "skipped"
  /\ \E n \in DOMAIN results : results[n].status = "success"

\* ---------------------------------------------------------------- C32
\* The results the thunks have appended: those that are not skipped.
DownloadResults == SelectSeq(results, LAMBDA r : r.status # "skipped")

\* C32: in a document-fetch job a thunk's append, increment and progress
\* emission are one step: while the queue runs, a step that changes the
\* results, the counter or the progress events appends one result, adds one
\* to the counter, settles one thunk and emits one progress event whose
\* current is the number of download results; at every instant the progress
\* events number the download results and no two carry the same current.
C32_ThunkCompletionIsOneStep ==
  /\ [](IsDoc =>
          /\ Len(ProgressEvents) = Len(DownloadResults)
          /\ completedTasks = Len(DownloadResults)
          /\ \A m, n \in DOMAIN ProgressEvents :
               ProgressEvents[m].current = ProgressEvents[n].current => m = n)
  /\ [][(IsDoc /\ pc = "queue"
         /\ (results' # results \/ completedTasks' # completedTasks
             \/ ProgressEvents' # ProgressEvents))
        => /\ Len(results') = Len(results) + 1
           /\ IsPrefix(results, results')
           /\ completedTasks' = completedTasks + 1
           /\ ProgressEvents' =
                Append(ProgressEvents,
                       Event("progress", Len(DownloadResults'), totalTasks))
           /\ Cardinality({i \in DOMAIN tstate :
                             Settled(i)' /\ ~Settled(i)}) = 1]_vars

\* C32 witness: of two thunks started together one has completed, with its
\* progress event, while the other is still downloading.
C32_Witness ==
  /\ IsDoc /\ pc = "queue" /\ maxConcurrent = 2
  /\ Len(tstate) >= 2
  /\ tstate[1] = "piping" /\ tstate[2] = "settled"
  /\ Len(ProgressEvents) = 1 /\ ProgressEvents[1].current = 1
  /\ Len(DownloadResults) = 1

\* ---------------------------------------------------------------- C33
\* The items of a sequential job the loop has left behind.
ItemsPassed == IF pc = "loop" THEN idx - 1 ELSE IF Started THEN Len(items) ELSE 0

\* C33: in the image-resize and file-convert jobs every item has at most one
\* result and one progress event, and exactly one of each once the loop has
\* passed it.
C33_OneResultAndOneProgressPerItem ==
  RemovesUpload =>
    \A i \in 1..Len(items) :
      LET rs == ItemResults(<<i, 0>>)
          ps == SelectSeq(ProgressEvents, LAMBDA e : e.current = i)
      IN /\ Len(rs) <= 1 /\ Len(ps) <= 1
         /\ i <= ItemsPassed => (Len(rs) = 1 /\ Len(ps) = 1)

\* ---------------------------------------------------------------- C34
\* C34: once the server listens, the broadcaster is installed in every route
\* module, and a bulk submit with valid input is not rejected.
C34_BroadcasterInstalledBeforeServing ==
  serving =>
    /\ installed = Range(RouteModules)
    /\ io
    /\ (response.st = "rejected" => ~ValidBody)

\* ---------------------------------------------------------------- C35
\* Row and column order of the items <<row, column>>.
ItemBefore(a, b) == a[1] < b[1] \/ (a[1] = b[1] /\ a[2] < b[2])

\* C35: in a document-fetch job the skipped results, in row and column
\* order, come first and are appended before any thunk is started, and each
\* thunk's result is appended at the end when the thunk completes, so the
\* download results stand in the order the downloads finished; in the other
\* utilities the results stand in the order of the submitted items.
C35_ResultsOrder ==
  /\ [](IF IsDoc
        THEN LET S == Count(results, LAMBDA r : r.status = "skipped")
             IN /\ \A n \in DOMAIN results :
                     n <= S <=> results[n].status = "skipped"
                /\ \A m, n \in 1..S :
                     m < n => ItemBefore(results[m].item, results[n].item)
        ELSE \A m, n \in DOMAIN results :
               m < n => results[m].item[1] <= results[n].item[1])
  /\ [][IsDoc =>
          /\ \A n \in DOMAIN results' :
               (n > Len(results) /\ results'[n].status = "skipped")
                  => (pc = "cleanup" /\ tstate = <<>>)
          /\ \A i \in DOMAIN tstate :
               (Settled(i)' /\ ~Settled(i))
                  => /\ Len(results') = Len(results) + 1
                     /\ IsPrefix(results, results')
                     /\ results'[Len(results')].item = downloadQueue[i].item]_vars

\* C35 witness: the second row was skipped and the third row's download
\* finished before the first row's.
C35_Witness ==
  /\ IsDoc /\ Len(results) = 3 /\ Len(downloadQueue) = 2
  /\ results[1].status = "skipped" /\ results[1].item[1] = 2
  /\ results[2].item = downloadQueue[2].item
  /\ results[3].item = downloadQueue[1].item
  /\ results[2].status = "success"

\* ---------------------------------------------------------------- C36
\* The counting pass has gone through: the start event announced its total.
\* The queue-building pass follows without suspension.
Counted == IsDoc /\ AnnouncedTotal # NoTotal

\* C36: in a document-fetch job whose counting pass has gone through, the
\* queued thunks number totalTasks, the skipped results number skippedTasks,
\* no thunk stands for an item with a skipped result, and when complete is
\* emitted the results number totalTasks + skippedTasks.
C36_BothPassesClassifyAlike ==
  Counted =>
    /\ Len(downloadQueue) = totalTasks
    /\ Count(results, LAMBDA r : r.status = "skipped") = skippedTasks
    /\ \A n \in DOMAIN results :
         results[n].status = "skipped" => results[n].item \notin WorkItems
    /\ \A i \in DOMAIN downloadQueue :
         LET row == data[downloadQueue[i].item[1]]
         IN /\ ~row.null /\ row.regNo # ""
            /\ isValidGoogleDriveLink(row.links[downloadQueue[i].item[2]])
    /\ "complete" \in Kinds => Len(results) = totalTasks + skippedTasks

\* C36 witness: a row without registration number, a row with an invalid
\* link and a row with a valid one; the job has emitted complete.
C36_Witness ==
  /\ Counted /\ "complete" \in Kinds
  /\ totalTasks = 1 /\ skippedTasks = 2 /\ Len(results) = 3
  /\ \E i \in DOMAIN data : ~data[i].null /\ data[i].regNo = ""
  /\ \E i \in DOMAIN data : data[i].links[1] = "invalid"

\* ---------------------------------------------------------------- C37
\* A file a work item has written: a file in one of the folders of the
\* download directory, not an archive and not a password file.
IsItemFile(f) == f.path.base # <<>> /\ f.path.dir \notin {"", "passwords"}

\* C37: while two jobs run, no work item of one writes the file a work item
\* of the other has written: a step never replaces the file of a running job
\* by the file of another running job.
C37_NoArtifactPathSharedByJobs ==
  [][\A f \in store, g \in store' :
       (/\ IsItemFile(f) /\ g.path = f.path
        /\ jobs[f.content].st = "running" /\ jobs[g.content].st = "running")
       => g.content = f.content]_vars

\* ---------------------------------------------------------------- C38
\* How many times socket s was sent the event of call n.
TimesReceived(s, n) ==
  Cardinality({m \in DOMAIN inbox[s] : inbox[s][m].n = n})

\* The calls whose event socket s was sent.
Seen(s) == {n \in DOMAIN log : TimesReceived(s, n) > 0}

\* C38: of every call of an emit function, a socket connected at the call
\* and outside the job's room was sent the event once, a socket in the room
\* twice, and no other socket was sent it; the calls a socket sees are those
\* made while it was connected, whatever rooms it was in.
C38_RoomMembershipOnlyDoublesDelivery ==
  /\ \A n \in DOMAIN log : \A s \in Sockets :
       TimesReceived(s, n) =
         IF s \in log[n].room THEN 2
         ELSE IF s \in log[n].audience THEN 1
         ELSE 0
  /\ \A s \in Sockets : Seen(s) = {n \in DOMAIN log : s \in log[n].audience}

\* C38 witness: one call for a job reached a socket of the job's room twice
\* and a connected socket outside the room once, and the socket of the room
\* also saw a call for the other job.
C38_Witness ==
  \E m, n \in DOMAIN log : \E s, t \in Sockets :
    /\ s \in log[n].room /\ TimesReceived(s, n) = 2
    /\ t \in log[n].audience \ log[n].room /\ TimesReceived(t, n) = 1
    /\ log[m].job # log[n].job
    /\ s \in log[m].audience \ log[m].room /\ TimesReceived(s, m) = 1

\* ---------------------------------------------------------------- C39
\* C39: a failed sweep at the start of a document-fetch job leaves the job
\* where it awaited the sweep, with no error event, and the job's next step
\* is the one it takes after a sweep that went through: with its config it
\* emits start with the counted total, and nothing else, and enters the
\* download queue.
C39_SweepFailureNeverAbortsTheJob ==
  /\ []((sweep = "failed" /\ pc = "cleanup") =>
          /\ "error" \notin Kinds
          /\ ENABLED FetchStep
          /\ body.config = "given" => ENABLED PrepareAndStart)
  /\ [][(sweep = "none" /\ sweep' = "failed") => UNCHANGED jobVars]_vars
  /\ [][(sweep = "failed" /\ pc = "cleanup" /\ pc' # pc
         /\ body.config = "given")
        => /\ events' = Emit(events, "start", 0, CountTotalTasks(data))
           /\ pc' \in {"queue", "chunking"}
           /\ pc' = "queue" =>
                \A i \in DOMAIN tstate' :
                  (chunks' # <<>> /\ i \in Range(chunks'[1]))
                     => tstate'[i] # "queued"]_vars

\* C39 witness: the sweep failed and left an expired archive in the
\* directory; the job has emitted its start event and a download of it has
\* succeeded.
C39_Witness ==
  /\ sweep = "failed" /\ OldArchive \in store /\ removed # {}
  /\ pc = "queue" /\ "error" \notin Kinds
  /\ Len(ProgressEvents) = 1
  /\ \E n \in DOMAIN results : results[n].status = "success"

====
